---------------------------- MODULE Spec2Model ----------------------------
(***************************************************************************)
(* A model of the Lentra backend core: the FAISS vector store, the         *)
(* chunker, the embedding service and the engine of src/backend/src/rag,   *)
(* the response evaluation strategies and the comparator of                *)
(* src/backend/src/evaluation, and the prompt fan-out.                     *)
(*                                                                         *)
(* Positions are 0-based as in the code; the sequences that hold them are  *)
(* 1-based, so record i of the code is metadata[i + 1] here.               *)
(***************************************************************************)
EXTENDS Integers, Sequences, FiniteSets, TLC

(***************************************************************************)
(* Bounds of the exploration.                                              *)
(***************************************************************************)
\* the most vectors the index holds
MaxVectors == 2
\* the most vectors the index holds where the durable store is explored too
MaxPersistVectors == 1
\* the most searches counted in total_searches
MaxSearches == 1
\* the most responses in a call of evaluate
MaxResponses == 2

(***************************************************************************)
(* Inputs.                                                                 *)
(***************************************************************************)
\* Embedding vectors of the index's dimension, and one of another dimension.
Vectors == {<<0, 0>>, <<1, 1>>}
WrongVectors == {<<0>>}
Queries == {<<0, 0>>, <<1, 0>>}
BatchSizes == {1, 2}
CollectionNames == {"default", "c2"}
DocIds == {"d1"}
NoDoc == "None"
NoCollection == "None"
TopKs == {1, 2}
\* score_threshold values as exact fractions num/den.
Thresholds == {<<0, 1>>, <<1, 3>>, <<2, 5>>}

VARIABLES
    indexExists,    \* self._index is not None
    indexVecs,      \* the vectors held by self._index, in position order
    metadata,       \* self._metadata
    collections,    \* self._collections
    documents,      \* self._documents
    stats,          \* self._stats
    diskIndex,      \* the file index.faiss
    diskMeta,       \* the file metadata.pkl
    ret,            \* the last call and what it returned or raised
    saved,          \* the in-memory state at the last save() that returned, until the store is used again
    comparator,     \* the Comparator: its mode and the ensemble it holds
    fanout,         \* a call of submit_prompt: its generate tasks and their results
    engine,         \* the RAGEngine
    embedder,       \* the EmbeddingService: its model and its cache
    chunker,        \* a DocumentChunker, and where a call of chunk is in its loop
    callers         \* a RAGEngine shared by concurrent callers: its fields, the
                    \* objects it constructed, and where each caller is suspended

vars == <<indexExists, indexVecs, metadata, collections, documents, stats,
          diskIndex, diskMeta, ret, saved, comparator, fanout, engine, embedder,
          chunker, callers>>

storeVars == <<indexExists, indexVecs, metadata, collections, documents, stats>>
diskVars == <<diskIndex, diskMeta>>
appVars == <<comparator, fanout, engine, embedder, chunker, callers>>

-----------------------------------------------------------------------------
(***************************************************************************)
(* Helpers.                                                                *)
(***************************************************************************)
Range(s) == {s[i] : i \in DOMAIN s}

Min(a, b) == IF a < b THEN a ELSE b

\* range(start, start + n) as a sequence
RangeSeq(start, n) == [i \in 1..n |-> start + i - 1]

\* the sequences of length n over S
SeqsOfLen(S, n) == [1..n -> S]

\* round(num/den * 10^digits) for num, den > 0: Python rounds half to even
RoundHalfEven(num, den) ==
    LET q == num \div den
        r == num % den
    IN  IF 2 * r > den \/ (2 * r = den /\ q % 2 = 1) THEN q + 1 ELSE q

StoreDimension == Len(CHOOSE v \in Vectors : TRUE)

\* squared L2 distance, as faiss.IndexFlatL2 computes it
RECURSIVE SumSq(_, _, _)
SumSq(a, b, i) ==
    IF i > Len(a) THEN 0
    ELSE (a[i] - b[i]) * (a[i] - b[i]) + SumSq(a, b, i + 1)

Distance(a, b) == SumSq(a, b, 1)

-----------------------------------------------------------------------------
(***************************************************************************)
(* FAISSVectorStore                                                        *)
(***************************************************************************)
NewStats == [total_vectors |-> 0, total_searches |-> 0, total_adds |-> 0]
NewCollections == [c \in {"default"} |-> {}]
NewDocuments == [d \in {} |-> <<>>]

AbsentIndexFile == [state |-> "absent", vecs |-> <<>>]
AbsentMetaFile == [state |-> "absent", metadata |-> <<>>,
                   collections |-> NewCollections, documents |-> NewDocuments,
                   stats |-> NewStats]
CorruptIndexFile == [AbsentIndexFile EXCEPT !.state = "corrupt"]
CorruptMetaFile == [AbsentMetaFile EXCEPT !.state = "corrupt"]

NoSaved == [valid |-> FALSE, wrote |-> FALSE]

\* no Comparator, no call of submit_prompt, no RAGEngine, no EmbeddingService yet
NoComparator == [made |-> FALSE]
NoFanout == [made |-> FALSE]
NoEngine == [made |-> FALSE]
NoEmbedder == [made |-> FALSE]
\* no DocumentChunker yet
NoChunker == [made |-> FALSE]
NoCallers == [made |-> FALSE]

Ret(op, err, val, args) == [op |-> op, err |-> err, val |-> val, args |-> args]

\* FAISSVectorStore.total_vectors
total_vectors == IF ~indexExists THEN 0 ELSE Len(indexVecs)

\* what a caller can observe of the store: total_vectors, the records, the
\* collection map, the document map and the counters
StoreView == [total_vectors |-> total_vectors, metadata |-> metadata,
              collections |-> collections, documents |-> documents,
              stats |-> stats]

\* FAISSVectorStore.__init__
Constructed ==
    /\ indexExists = FALSE
    /\ indexVecs = <<>>
    /\ metadata = <<>>
    /\ collections = NewCollections
    /\ documents = NewDocuments
    /\ stats = NewStats

Init ==
    /\ Constructed
    /\ diskIndex = AbsentIndexFile
    /\ diskMeta = AbsentMetaFile
    /\ ret = Ret("construct", "", 0, <<>>)
    /\ saved = NoSaved
    /\ comparator = NoComparator
    /\ fanout = NoFanout
    /\ engine = NoEngine
    /\ embedder = NoEmbedder
    /\ chunker = NoChunker
    /\ callers = NoCallers

\* a new FAISSVectorStore on the same index_path
Construct ==
    /\ ret.op # "construct"
    /\ indexExists' = FALSE
    /\ indexVecs' = <<>>
    /\ metadata' = <<>>
    /\ collections' = NewCollections
    /\ documents' = NewDocuments
    /\ stats' = NewStats
    /\ ret' = Ret("construct", "", 0, <<>>)
    /\ saved' = IF ret.op = "save" /\ ret.err = "" THEN saved ELSE NoSaved
    /\ UNCHANGED appVars
    /\ UNCHANGED diskVars


\* add as it would be without the check of len(embeddings) against len(chunks)
AddRejectedNoLengthCheck(embeddings, nchunks) ==
    IF Len(embeddings[1]) # StoreDimension THEN "ValueError:dimension"
    ELSE ""

\* the checks of FAISSVectorStore.add on its arguments: the error it raises, if any
AddRejected(embeddings, nchunks) ==
    IF Len(embeddings) # nchunks THEN "ValueError:length"
    ELSE IF Len(embeddings[1]) # StoreDimension THEN "ValueError:dimension"
    ELSE ""

\* add as it would be if positions were counted over the live records only
AddStartIdxLiveOnly ==
    Cardinality({i \in DOMAIN metadata : ~metadata[i].deleted})

\* start_idx = self._index.ntotal
AddStartIdx == Len(indexVecs)

\* FAISSVectorStore.add
AddCall(embeddings, nchunks, collection, document_id) ==
    LET n == Len(embeddings)
        args == [n |-> n, nchunks |-> nchunks, dim |-> Len(embeddings[1])]
        indices == RangeSeq(AddStartIdx, n)
        rejected == AddRejected(embeddings, nchunks)
    IN  /\ indexExists' = TRUE          \* self._ensure_index()
        /\ IF rejected # ""
           THEN /\ ret' = Ret("add", rejected, <<>>, args)
                /\ UNCHANGED <<indexVecs, metadata, collections, documents, stats>>
           ELSE /\ indexVecs' = indexVecs \o embeddings
                /\ metadata' = metadata \o
                       [i \in 1..n |-> [idx |-> indices[i],
                                        document_id |-> document_id,
                                        collection |-> collection,
                                        deleted |-> FALSE]]
                /\ collections' =
                       [c \in DOMAIN collections \cup {collection} |->
                           IF c = collection
                           THEN (IF c \in DOMAIN collections THEN collections[c] ELSE {})
                                    \cup Range(indices)
                           ELSE collections[c]]
                /\ documents' =
                       IF document_id = NoDoc THEN documents
                       ELSE [d \in DOMAIN documents \cup {document_id} |->
                               IF d = document_id
                               THEN (IF d \in DOMAIN documents THEN documents[d] ELSE <<>>)
                                        \o indices
                               ELSE documents[d]]
                /\ stats' = [stats EXCEPT !.total_vectors = Len(indexVecs'),
                                          !.total_adds = @ + n]
                /\ ret' = Ret("add", "", indices, args)
        /\ saved' = NoSaved
        /\ UNCHANGED appVars
        /\ UNCHANGED diskVars

\* add called with batches of the given sizes over the given vectors, into the
\* given collections, while the index holds at most limit vectors
AddOver(vectors, sizes, names, limit) ==
    \E n \in sizes, nchunks \in sizes,
       collection \in names, document_id \in DocIds \cup {NoDoc} :
        \E embeddings \in SeqsOfLen(vectors, n) \cup SeqsOfLen(WrongVectors, n) :
            /\ Len(indexVecs) + n <= limit
            /\ stats.total_adds + n <= limit
            /\ AddCall(embeddings, nchunks, collection, document_id)

Add == AddOver(Vectors, BatchSizes, CollectionNames, MaxVectors)

\* what an IndexFlatL2 holding vecs returns for search(query, k): the k
\* nearest positions by ascending distance; FAISS leaves the order of
\* equidistant vectors open
NearestPositions(vecs, query, k) ==
    LET n == Len(vecs)
        dist(p) == Distance(query, vecs[p + 1])
    IN  {o \in [1..k -> 0..(n - 1)] :
            /\ \A i, j \in 1..k : i < j => o[i] # o[j] /\ dist(o[i]) <= dist(o[j])
            /\ \A p \in 0..(n - 1) :
                   (\A i \in 1..k : o[i] # p) => \A i \in 1..k : dist(o[i]) <= dist(p)}

\* an index search that returns k positions in any order
FaissSearchAnyOrder(query, k) ==
    {o \in [1..k -> 0..(Len(indexVecs) - 1)] : \A i, j \in 1..k : i < j => o[i] # o[j]}

\* self._index.search(query, k)
FaissSearch(query, k) == NearestPositions(indexVecs, query, k)

\* search as it would be if score_threshold were ignored
BelowThresholdNever(distance, threshold) == FALSE

\* score < score_threshold, for score = 1.0 / (1.0 + distance)
BelowThreshold(distance, threshold) ==
    threshold[2] < threshold[1] * (1 + distance)

\* round(score, 4), in units of 1/10000
RoundedScore(distance) == RoundHalfEven(10000, 1 + distance)

\* search as it would be if the collection filter were ignored
OtherCollectionNever(collection, record) == FALSE

\* if collection and metadata.get("collection") != collection: continue
OtherCollection(collection, record) ==
    collection # NoCollection /\ record.collection # collection

\* if len(results) >= top_k: break
ReachedTopK(results, top_k) == Len(results) >= top_k

\* the loop of FAISSVectorStore.search over the positions FAISS returned,
\* for an index holding vecs and the records given
RECURSIVE SearchResults(_, _, _, _, _, _, _, _, _)
SearchResults(vecs, records, order, i, results, query, top_k, collection, threshold) ==
    IF i > Len(order) THEN [err |-> "", results |-> results]
    ELSE
        LET idx == order[i]
            distance == Distance(query, vecs[idx + 1])
        IN  IF BelowThreshold(distance, threshold)
            THEN SearchResults(vecs, records, order, i + 1, results, query, top_k,
                               collection, threshold)
            ELSE IF idx + 1 > Len(records)
            THEN [err |-> "IndexError", results |-> <<>>]
            ELSE IF OtherCollection(collection, records[idx + 1])
            THEN SearchResults(vecs, records, order, i + 1, results, query, top_k,
                               collection, threshold)
            ELSE
                LET appended == Append(results,
                        [id |-> idx,
                         score |-> RoundedScore(distance),
                         document_id |-> records[idx + 1].document_id,
                         collection |-> records[idx + 1].collection])
                IN  IF ReachedTopK(appended, top_k)
                    THEN [err |-> "", results |-> appended]
                    ELSE SearchResults(vecs, records, order, i + 1, appended, query,
                                       top_k, collection, threshold)

\* the loop of FAISSVectorStore.search, in the store
SearchLoop(order, i, results, query, top_k, collection, threshold) ==
    SearchResults(indexVecs, metadata, order, i, results, query, top_k, collection, threshold)

\* FAISSVectorStore.search
SearchCall(query, top_k, collection, threshold) ==
    LET args == [query |-> query, top_k |-> top_k, collection |-> collection,
                 threshold |-> threshold]
    IN  /\ IF ~indexExists \/ Len(indexVecs) = 0
           THEN /\ ret' = Ret("search", "", <<>>, args)
                /\ UNCHANGED stats
           ELSE LET search_k == Min(IF collection # NoCollection THEN top_k * 3 ELSE top_k,
                                    Len(indexVecs))
                IN  \E order \in FaissSearch(query, search_k) :
                        LET out == SearchLoop(order, 1, <<>>, query, top_k,
                                              collection, threshold)
                        IN  IF out.err # ""
                            THEN /\ ret' = Ret("search", out.err, <<>>, args)
                                 /\ UNCHANGED stats
                            ELSE /\ ret' = Ret("search", "", out.results, args)
                                 /\ stats' = [stats EXCEPT !.total_searches = @ + 1]
        /\ saved' = NoSaved
        /\ UNCHANGED appVars
        /\ UNCHANGED <<indexExists, indexVecs, metadata, collections, documents>>
        /\ UNCHANGED diskVars

\* search called with the given queries, top_k values, filters and thresholds
SearchOver(queries, top_ks, filters, thresholds) ==
    \E query \in queries, top_k \in top_ks,
       collection \in filters, threshold \in thresholds :
        /\ stats.total_searches < MaxSearches
        /\ SearchCall(query, top_k, collection, threshold)

Search == SearchOver(Queries, TopKs, CollectionNames \cup {NoCollection}, Thresholds)

\* FAISSVectorStore.delete_document
DeleteDocumentCall(document_id) ==
    /\ IF document_id \notin DOMAIN documents
       THEN /\ ret' = Ret("delete_document", "", 0, [document_id |-> document_id])
            /\ UNCHANGED <<metadata, documents>>
       ELSE LET indices == documents[document_id]
            IN  /\ metadata' = [i \in DOMAIN metadata |->
                                   IF (i - 1) \in Range(indices)
                                   THEN [metadata[i] EXCEPT !.deleted = TRUE]
                                   ELSE metadata[i]]
                /\ documents' = [d \in DOMAIN documents \ {document_id} |-> documents[d]]
                /\ ret' = Ret("delete_document", "", Len(indices),
                              [document_id |-> document_id])
    /\ saved' = NoSaved
    /\ UNCHANGED appVars
    /\ UNCHANGED <<indexExists, indexVecs, collections, stats>>
    /\ UNCHANGED diskVars

DeleteDocument == \E document_id \in DocIds : DeleteDocumentCall(document_id)

\* FAISSVectorStore.rebuild_index
RebuildIndex ==
    /\ IF ~indexExists
       THEN /\ ret' = Ret("rebuild_index", "", 0, <<>>)
            /\ UNCHANGED <<indexVecs, metadata>>
       ELSE IF \A i \in DOMAIN metadata : metadata[i].deleted
       THEN /\ indexVecs' = <<>>
            /\ metadata' = <<>>
            /\ ret' = Ret("rebuild_index", "", 0, <<>>)
       ELSE /\ ret' = Ret("rebuild_index", "", Len(indexVecs), <<>>)
            /\ UNCHANGED <<indexVecs, metadata>>
    /\ saved' = NoSaved
    /\ UNCHANGED appVars
    /\ UNCHANGED <<indexExists, collections, documents, stats>>
    /\ UNCHANGED diskVars


\* faiss.write_index(self._index, index_file)
WrittenIndexFile == [state |-> "ok", vecs |-> indexVecs]

\* save as it would be if the records were written without their deleted flags
WrittenMetaFileNoFlags ==
    [state |-> "ok",
     metadata |-> [i \in DOMAIN metadata |-> [metadata[i] EXCEPT !.deleted = FALSE]],
     collections |-> collections, documents |-> documents, stats |-> stats]

\* pickle.dump of the metadata, the two maps and the counters
WrittenMetaFile == [state |-> "ok", metadata |-> metadata,
                    collections |-> collections, documents |-> documents,
                    stats |-> stats]

\* FAISSVectorStore.save, returning normally
Save ==
    /\ IF ~indexExists
       THEN UNCHANGED diskVars          \* if self._index is None: return
       ELSE /\ diskIndex' = WrittenIndexFile
            /\ diskMeta' = WrittenMetaFile
    /\ ret' = Ret("save", "", 0, <<>>)
    /\ saved' = [valid |-> TRUE, wrote |-> indexExists, view |-> StoreView]
    /\ UNCHANGED appVars
    /\ UNCHANGED storeVars

\* FAISSVectorStore.save, raising RAGError(operation="save"): the write of
\* index.faiss fails, or the open of metadata.pkl fails after index.faiss is
\* written, or pickle.dump fails after the open truncated metadata.pkl
SaveFail ==
    /\ indexExists
    /\ \E stage \in {"write_index", "open_metadata", "pickle_dump"} :
        /\ diskIndex' = IF stage = "write_index" THEN CorruptIndexFile
                        ELSE WrittenIndexFile
        /\ diskMeta' = IF stage = "pickle_dump" THEN CorruptMetaFile ELSE diskMeta
        /\ ret' = Ret("save", "RAGError:save", 0, [stage |-> stage])
    /\ saved' = NoSaved
    /\ UNCHANGED appVars
    /\ UNCHANGED storeVars

\* FAISSVectorStore.initialize
Initialize ==
    /\ IF diskIndex.state # "absent" /\ diskMeta.state # "absent"
       THEN IF diskIndex.state = "corrupt"
            THEN \* faiss.read_index raises: nothing was assigned
                 /\ indexExists' = TRUE      \* self._ensure_index()
                 /\ UNCHANGED <<indexVecs, metadata, collections, documents, stats>>
                 /\ ret' = Ret("initialize", "", 0, [path |-> "load_failed", fresh |-> ret.op = "construct"])
            ELSE IF diskMeta.state = "corrupt"
            THEN \* pickle.load raises after self._index was replaced
                 /\ indexExists' = TRUE      \* self._ensure_index() keeps the index read
                 /\ indexVecs' = diskIndex.vecs
                 /\ UNCHANGED <<metadata, collections, documents, stats>>
                 /\ ret' = Ret("initialize", "", 0, [path |-> "load_failed", fresh |-> ret.op = "construct"])
            ELSE /\ indexExists' = TRUE
                 /\ indexVecs' = diskIndex.vecs
                 /\ metadata' = diskMeta.metadata
                 /\ collections' = diskMeta.collections
                 /\ documents' = diskMeta.documents
                 /\ stats' = diskMeta.stats
                 /\ ret' = Ret("initialize", "", 0, [path |-> "loaded", fresh |-> ret.op = "construct"])
       ELSE /\ indexExists' = TRUE      \* self._ensure_index()
            /\ UNCHANGED <<indexVecs, metadata, collections, documents, stats>>
            /\ ret' = Ret("initialize", "", 0, [path |-> "created", fresh |-> ret.op = "construct"])
    /\ saved' = IF ret.op = "construct" THEN saved ELSE NoSaved
    /\ UNCHANGED appVars
    /\ UNCHANGED diskVars

\* the durable store is damaged or loses a file between two runs
DamageDisk ==
    /\ ret.op = "construct"
    /\ \/ /\ diskIndex.state = "ok"
          /\ diskIndex' = CorruptIndexFile
          /\ UNCHANGED diskMeta
       \/ /\ diskMeta.state = "ok"
          /\ diskMeta' = CorruptMetaFile
          /\ UNCHANGED diskIndex
       \/ /\ diskIndex.state # "absent"
          /\ diskIndex' = AbsentIndexFile
          /\ UNCHANGED diskMeta
       \/ /\ diskMeta.state # "absent"
          /\ diskMeta' = AbsentMetaFile
          /\ UNCHANGED diskIndex
    /\ saved' = NoSaved
    /\ UNCHANGED appVars
    /\ UNCHANGED <<ret, storeVars>>

\* the default search: search(query) with top_k = 1, no filter, threshold 0
SearchDefault == SearchOver({<<0, 0>>}, {1}, {NoCollection}, {<<0, 1>>})

\* the store in one process: any sequence of add, search and delete_document
NextStore ==
    \/ Add
    \/ Search
    \/ DeleteDocument

SpecStore == Init /\ [][NextStore]_vars

\* the store in one process, saving: add, search, delete_document and save
NextSave ==
    \/ Add
    \/ SearchDefault
    \/ DeleteDocument
    \/ Save

SpecSave == Init /\ [][NextSave]_vars

\* add as the runs over one durable store use it: one vector at a time, into
\* the default collection
AddOne == AddOver({<<0, 0>>}, {1}, {"default"}, MaxPersistVectors)

\* the store over several runs on one durable store
Next ==
    \/ Construct
    \/ Initialize
    \/ AddOne
    \/ SearchDefault
    \/ DeleteDocument
    \/ RebuildIndex
    \/ Save
    \/ SaveFail
    \/ DamageDisk

Spec == Init /\ [][Next]_vars

-----------------------------------------------------------------------------
(***************************************************************************)
(* Evaluation: exact arithmetic.                                           *)
(*                                                                         *)
(* The strategies compute with floats; here a number is an exact fraction  *)
(* <<numerator, denominator>> with a positive denominator, and a score     *)
(* field of an EvaluationScore is an integer in units of 1/ScoreUnit.      *)
(***************************************************************************)
\* the unit of a rounded score field: round(x, 4)
ScoreUnit == 10000

Abs(x) == IF x < 0 THEN -x ELSE x

RECURSIVE Gcd(_, _)
Gcd(a, b) == IF b = 0 THEN a ELSE Gcd(b, a % b)

\* the fraction n/d (d > 0) in lowest terms
Frac(n, d) == LET g == Gcd(Abs(n), d) IN <<n \div g, d \div g>>

Zero == Frac(0, 1)
One == Frac(1, 1)
Half == Frac(1, 2)

\* the least common multiple of two positive numbers
Lcm(a, b) == (a \div Gcd(a, b)) * b

QAdd(a, b) ==
    LET l == Lcm(a[2], b[2])
    IN  Frac(a[1] * (l \div a[2]) + b[1] * (l \div b[2]), l)
QSub(a, b) == QAdd(a, <<-b[1], b[2]>>)
QMul(a, b) ==
    LET x == Frac(a[1], b[2])
        y == Frac(b[1], a[2])
    IN  Frac(x[1] * y[1], x[2] * y[2])
\* a / b for b # 0
QDiv(a, b) == IF b[1] > 0 THEN QMul(a, <<b[2], b[1]>>)
              ELSE QMul(a, <<-b[2], -b[1]>>)
QLess(a, b) ==
    LET l == Lcm(a[2], b[2])
    IN  a[1] * (l \div a[2]) < b[1] * (l \div b[2])
QAbs(a) == <<Abs(a[1]), a[2]>>
\* min(a, b) and max(a, b) as Python evaluates them
QMin(a, b) == IF QLess(b, a) THEN b ELSE a
QMax(a, b) == IF QLess(a, b) THEN b ELSE a
\* max(0.0, min(1.0, x))
Clamp01(x) == QMax(Zero, QMin(One, x))

\* 10 ^ n
RECURSIVE Pow10(_)
Pow10(n) == IF n = 0 THEN 1 ELSE 10 * Pow10(n - 1)

\* round(x, ndigits), in units of 1/ScoreUnit.  A value that lies half-way
\* between two results goes to the even one here; the float of such a value
\* lies on one side or the other, so the answers of the judge below avoid them.
Round(x, ndigits) ==
    LET g == Gcd(Pow10(ndigits), x[2])
    IN  RoundHalfEven(x[1] * (Pow10(ndigits) \div g), x[2] \div g)
            * (ScoreUnit \div Pow10(ndigits))

\* dict.get(key, default)
Get(dict, key, default) == IF key \in DOMAIN dict THEN dict[key] ELSE default

\* None, or an empty dict, where a dict of weights is expected
NoWeights == [k \in {} |-> Zero]

-----------------------------------------------------------------------------
(***************************************************************************)
(* EvaluationScore                                                         *)
(***************************************************************************)
\* the constructor as it would be without the ge and le constraints of the fields
ScoreValidUnconstrained(relevance, clarity, hallucination_risk, final_score) == TRUE

\* the constraints ge=0.0, le=1.0 of the four score fields: the constructor
\* raises ValidationError when one does not hold
ScoreValid(relevance, clarity, hallucination_risk, final_score) ==
    \A x \in {relevance, clarity, hallucination_risk, final_score} :
        0 <= x /\ x <= ScoreUnit

\* EvaluationScore(...): the fields the strategies set; valid tells whether the
\* constructor returned, and a record that is not valid is never handed on
EvaluationScore(model_id, relevance, clarity, hallucination_risk, final_score, strategy, fallback) ==
    [valid |-> ScoreValid(relevance, clarity, hallucination_risk, final_score),
     model_id |-> model_id,
     relevance |-> relevance,
     clarity |-> clarity,
     hallucination_risk |-> hallucination_risk,
     final_score |-> final_score,
     strategy |-> strategy,
     fallback |-> fallback]

\* the list a strategy returns, or the ValidationError that leaves its loop
Returned(op, scores, args) ==
    IF \E i \in DOMAIN scores : ~scores[i].valid
    THEN Ret(op, "ValidationError", <<>>, args)
    ELSE Ret(op, "", scores, args)

-----------------------------------------------------------------------------
(***************************************************************************)
(* Responses.  A response is what the strategies read of it: counts taken  *)
(* of its text, its latency, its embedding and what the judge says of it.  *)
(***************************************************************************)
ModelIds == <<"model-a", "model-b", "model-c", "model-d">>

\* a response dict: model_id, content (through the counts below), latency
\*   length      len(text)
\*   words       len(text.split())
\*   endings     text.count(".") + text.count("!") + text.count("?")
\*   paragraphs  text.count("\n\n")
\*   markers     a list marker ("- ", "* ", "1.", "2.") is in the text
\*   overlap     the meaningful words of the prompt that are in the text
\*   sentences   the non-blank pieces of text.split(".")
\*   bonus       the formatting bonus of the embedding clarity, in 1/100
\*   latency_ms  latency in milliseconds
\*   embedding   the vector the embedder gives the text
\*   judge       what the judge model answers for the response
Response(model_id, length, words, endings, paragraphs, markers, overlap, sentences, bonus, latency_ms, embedding, judge) ==
    [model_id |-> model_id, length |-> length, words |-> words,
     endings |-> endings, paragraphs |-> paragraphs, markers |-> markers,
     overlap |-> overlap, sentences |-> sentences, bonus |-> bonus,
     latency_ms |-> latency_ms, embedding |-> embedding, judge |-> judge]

-----------------------------------------------------------------------------
(***************************************************************************)
(* HeuristicStrategy                                                       *)
(***************************************************************************)
HeuristicDefaultWeights ==
    [relevance |-> Frac(40, 100), clarity |-> Frac(30, 100),
     hallucination |-> Frac(30, 100)]

\* HeuristicStrategy._calculate_relevance, for a prompt of prompt_words
\* meaningful words
HeuristicCalculateRelevance(prompt_words, response) ==
    IF prompt_words = 0 THEN Half
    ELSE QMin(One, QMul(Frac(response.overlap, prompt_words), Frac(3, 2)))

\* HeuristicStrategy._calculate_clarity
HeuristicCalculateClarity(response) ==
    IF response.length = 0 THEN Zero
    ELSE
        LET sentence_count == IF response.endings > 1 THEN response.endings ELSE 1
            avg_sentence_length == Frac(response.words, sentence_count)
            deviation == QAbs(QSub(avg_sentence_length, Frac(17, 1)))
            sentence_score == QMax(Zero, QSub(One, QDiv(deviation, Frac(30, 1))))
            has_structure == response.paragraphs > 0 \/ sentence_count > 1
            structure_bonus == IF has_structure THEN Frac(1, 10) ELSE Zero
            format_bonus == IF response.markers THEN Frac(1, 10) ELSE Zero
        IN  QMin(One, QAdd(QAdd(sentence_score, structure_bonus), format_bonus))

\* HeuristicStrategy._calculate_hallucination_risk
HeuristicCalculateHallucinationRisk(latency_ms, text_length) ==
    IF text_length = 0 THEN One
    ELSE
        LET speed == Frac(text_length, IF latency_ms > 1 THEN latency_ms ELSE 1)
        IN  IF QLess(Frac(10, 1), speed) THEN Frac(3, 10)
            ELSE IF QLess(speed, Frac(1, 10)) THEN Frac(4, 10)
            ELSE Frac(2, 10)

\* HeuristicStrategy._evaluate_single_dict
HeuristicEvaluateSingleDict(prompt_words, response, weights) ==
    LET relevance == HeuristicCalculateRelevance(prompt_words, response)
        clarity == HeuristicCalculateClarity(response)
        hallucination_risk ==
            HeuristicCalculateHallucinationRisk(response.latency_ms, response.length)
        final_score ==
            QAdd(QAdd(QMul(relevance, Get(weights, "relevance", Frac(4, 10))),
                      QMul(clarity, Get(weights, "clarity", Frac(3, 10)))),
                 QMul(QSub(One, hallucination_risk),
                      Get(weights, "hallucination", Frac(3, 10))))
    IN  EvaluationScore(response.model_id, Round(relevance, 3), Round(clarity, 3),
                        Round(hallucination_risk, 3), Round(final_score, 3),
                        "heuristic", FALSE)

\* HeuristicStrategy.evaluate: the scores of the responses, in order
HeuristicScores(prompt_words, responses, weights) ==
    LET used == IF DOMAIN weights = {} THEN HeuristicDefaultWeights ELSE weights
    IN  [i \in DOMAIN responses |->
            HeuristicEvaluateSingleDict(prompt_words, responses[i], used)]

-----------------------------------------------------------------------------
(***************************************************************************)
(* EmbeddingSimilarityStrategy                                             *)
(***************************************************************************)
\* no context: evaluate(prompt, responses, context=None)
NoContext == <<>>

RECURSIVE DotFrom(_, _, _)
DotFrom(a, b, i) ==
    IF i > Len(a) THEN 0 ELSE a[i] * b[i] + DotFrom(a, b, i + 1)

\* np.dot(vec1, vec2)
Dot(a, b) == DotFrom(a, b, 1)

\* np.linalg.norm(vec), for the vectors used here, whose norm is an integer
Norm(vec) == CHOOSE n \in 0..Dot(vec, vec) : n * n = Dot(vec, vec)

\* EmbeddingSimilarityStrategy._cosine_similarity
EmbeddingCosineSimilarity(vec1, vec2) ==
    LET norm1 == Norm(vec1)
        norm2 == Norm(vec2)
    IN  IF norm1 = 0 \/ norm2 = 0 THEN Zero
        ELSE QDiv(QAdd(Frac(Dot(vec1, vec2), norm1 * norm2), One), Frac(2, 1))

\* EmbeddingSimilarityStrategy._calculate_clarity
EmbeddingCalculateClarity(response) ==
    LET norm_score == QMin(One, QDiv(Frac(Norm(response.embedding), 1), Frac(3, 2)))
        num_sentences == response.sentences
        length_score ==
            IF num_sentences = 0 THEN Frac(1, 10)
            ELSE IF num_sentences < 2 THEN Frac(5, 10)
            ELSE IF num_sentences < 10 THEN One
            ELSE QMax(Frac(5, 10),
                      QSub(One, QMul(Frac(num_sentences - 10, 1), Frac(2, 100))))
        format_bonus == Frac(response.bonus, 100)
        clarity == QAdd(QAdd(QMul(Frac(4, 10), norm_score),
                             QMul(Frac(5, 10), length_score)),
                        QMin(Frac(1, 10), format_bonus))
    IN  Clamp01(clarity)

\* EmbeddingSimilarityStrategy._calculate_hallucination_risk
EmbeddingCalculateHallucinationRisk(prompt_embedding, response_embedding, context_embedding, latency_ms) ==
    LET prompt_similarity ==
            EmbeddingCosineSimilarity(prompt_embedding, response_embedding)
        prompt_risk == QSub(One, prompt_similarity)
        divergence_risk ==
            IF context_embedding # NoContext
            THEN LET context_similarity ==
                         EmbeddingCosineSimilarity(context_embedding, response_embedding)
                     context_risk == QSub(One, context_similarity)
                 IN  QAdd(QMul(Half, prompt_risk), QMul(Half, context_risk))
            ELSE prompt_risk
        latency_risk == IF latency_ms < 500 THEN Frac(1, 10)
                        ELSE IF latency_ms > 30000 THEN Frac(3, 10)
                        ELSE Zero
        hallucination_risk ==
            QAdd(QMul(Frac(8, 10), divergence_risk), QMul(Frac(2, 10), latency_risk))
    IN  Clamp01(hallucination_risk)

\* EmbeddingSimilarityStrategy._compute_final_score
EmbeddingComputeFinalScore(relevance, clarity, hallucination_risk) ==
    Clamp01(QAdd(QAdd(QMul(Frac(50, 100), relevance), QMul(Frac(30, 100), clarity)),
                 QMul(Frac(20, 100), QSub(One, hallucination_risk))))

\* the body of the loop of EmbeddingSimilarityStrategy.evaluate
EmbeddingEvaluateOne(prompt_embedding, response, context_embedding) ==
    LET prompt_similarity ==
            EmbeddingCosineSimilarity(prompt_embedding, response.embedding)
        relevance ==
            IF context_embedding # NoContext
            THEN QAdd(QMul(Frac(6, 10), prompt_similarity),
                      QMul(Frac(4, 10),
                           EmbeddingCosineSimilarity(context_embedding,
                                                     response.embedding)))
            ELSE prompt_similarity
        clarity == EmbeddingCalculateClarity(response)
        hallucination_risk ==
            EmbeddingCalculateHallucinationRisk(prompt_embedding, response.embedding,
                                                context_embedding, response.latency_ms)
        final_score == EmbeddingComputeFinalScore(relevance, clarity, hallucination_risk)
    IN  EvaluationScore(response.model_id, Round(relevance, 4), Round(clarity, 4),
                        Round(hallucination_risk, 4), Round(final_score, 4),
                        "embedding_similarity", FALSE)

\* EmbeddingSimilarityStrategy.evaluate: the scores of the responses, in order
EmbeddingScores(prompt_embedding, responses, context_embedding) ==
    [i \in DOMAIN responses |->
        EmbeddingEvaluateOne(prompt_embedding, responses[i], context_embedding)]

-----------------------------------------------------------------------------
(***************************************************************************)
(* LLMJudgeStrategy                                                        *)
(*                                                                         *)
(* What the judge model does for a response is a record:                   *)
(*   reply    "raises" when runner.generate raises, else "text"            *)
(*   format   how the text holds JSON: "json" (the whole text), "fenced"   *)
(*            (in a ``` block), "embedded" (an object within prose) or     *)
(*            "prose" (none)                                               *)
(*   type     the type of the JSON value: "object", "array" or "null"      *)
(*   fields   for an object, its keys and values; a value is a record      *)
(*            [type, value] with type "number" (value in 1/JudgeUnit),     *)
(*            "boolean" (true and false, 1 and 0 in Python's arithmetic),  *)
(*            "string" or "null"                                           *)
(***************************************************************************)
\* the unit of the numbers in a judge's answer
JudgeUnit == 10 * ScoreUnit

JudgeKeys == {"relevance", "clarity", "hallucination_risk"}

Number(v) == [type |-> "number", value |-> v]
Boolean(b) == [type |-> "boolean", value |-> IF b THEN JudgeUnit ELSE 0]
NotANumber(type) == [type |-> type, value |-> 0]

NoFields == [k \in {} |-> Number(0)]

JudgeAnswer(reply, format, type, fields) ==
    [reply |-> reply, format |-> format, type |-> type, fields |-> fields]

\* the value None of _parse_judge_response
ParsedNone == [type |-> "none", fields |-> NoFields]

\* LLMJudgeStrategy._parse_judge_response: json.loads of the text, else of the
\* first fenced block, else the first object in the text with an expected key
JudgeParseResponse(answer) ==
    LET parsed == [type |-> answer.type, fields |-> answer.fields]
    IN  IF answer.format \in {"json", "fenced"} THEN parsed
        ELSE IF /\ answer.format = "embedded"
                /\ answer.type = "object"
                /\ DOMAIN answer.fields \cap JudgeKeys # {}
        THEN parsed
        ELSE ParsedNone

\* bool(parsed_scores)
Truthy(parsed) ==
    CASE parsed.type = "object" -> DOMAIN parsed.fields # {}
      [] parsed.type = "array" -> TRUE
      [] OTHER -> FALSE

\* LLMJudgeStrategy._compute_final_score
JudgeComputeFinalScore(relevance, clarity, hallucination_risk) ==
    Clamp01(QAdd(QAdd(QMul(Frac(50, 100), relevance), QMul(Frac(25, 100), clarity)),
                 QMul(Frac(25, 100), QSub(One, hallucination_risk))))

\* a fallback score that is not the neutral one
JudgeCreateFallbackScoreZero(model_id) ==
    EvaluationScore(model_id, 0, 0, 0, 0, "llm_judge", TRUE)

\* LLMJudgeStrategy._create_fallback_score
JudgeCreateFallbackScore(model_id) ==
    EvaluationScore(model_id, ScoreUnit \div 2, ScoreUnit \div 2, ScoreUnit \div 2,
                    ScoreUnit \div 2, "llm_judge", TRUE)

\* the try statement in the loop of LLMJudgeStrategy.evaluate: the score it
\* appends for a response
JudgeEvaluateOne(response) ==
    LET answer == response.judge
        fallback == JudgeCreateFallbackScore(response.model_id)
    IN  IF answer.reply = "raises" THEN fallback           \* except Exception
        ELSE
            LET parsed_scores == JudgeParseResponse(answer)
                default == Number(JudgeUnit \div 2)
                relevance == Get(parsed_scores.fields, "relevance", default)
                clarity == Get(parsed_scores.fields, "clarity", default)
                hallucination_risk ==
                    Get(parsed_scores.fields, "hallucination_risk", default)
            IN  IF ~Truthy(parsed_scores) THEN fallback    \* else: parsing failed
                ELSE IF parsed_scores.type # "object"
                THEN fallback                              \* AttributeError: no .get
                ELSE IF \E v \in {relevance, clarity, hallucination_risk} :
                            v.type \notin {"number", "boolean"}
                THEN fallback                              \* TypeError
                ELSE
                    LET r == Frac(relevance.value, JudgeUnit)
                        c == Frac(clarity.value, JudgeUnit)
                        h == Frac(hallucination_risk.value, JudgeUnit)
                        score == EvaluationScore(response.model_id,
                                     Round(r, 4), Round(c, 4), Round(h, 4),
                                     Round(JudgeComputeFinalScore(r, c, h), 4),
                                     "llm_judge", FALSE)
                    IN  IF score.valid THEN score
                        ELSE fallback                      \* ValidationError

\* the loop of LLMJudgeStrategy.evaluate from response i on
RECURSIVE JudgeLoop(_, _, _)
JudgeLoop(responses, i, scores) ==
    IF i > Len(responses) THEN scores
    ELSE JudgeLoop(responses, i + 1, Append(scores, JudgeEvaluateOne(responses[i])))

\* LLMJudgeStrategy.evaluate: the scores of the responses
JudgeScores(responses) ==
    IF Len(responses) = 0 THEN <<>> ELSE JudgeLoop(responses, 1, <<>>)

-----------------------------------------------------------------------------
(***************************************************************************)
(* EnsembleStrategy                                                        *)
(***************************************************************************)
\* EnsembleStrategy.__init__: the weights of the strategies
EnsembleWeights(use_llm_judge, weights) ==
    IF DOMAIN weights # {} THEN weights
    ELSE IF use_llm_judge
    THEN [heuristic |-> Frac(2, 10), embedding |-> Frac(3, 10), llm_judge |-> Frac(5, 10)]
    ELSE [heuristic |-> Frac(4, 10), embedding |-> Frac(6, 10)]

\* no score of a strategy for a response
NoScore == [valid |-> FALSE]

\* the weighted sum of the values that are there, and the sum of their weights
RECURSIVE EnsembleSums(_, _, _, _)
EnsembleSums(values_with_strategy, weights, i, sums) ==
    IF i > Len(values_with_strategy) THEN sums
    ELSE
        LET value == values_with_strategy[i][1]
            strategy == values_with_strategy[i][2]
            weight == Get(weights, strategy, Zero)
        IN  IF value = <<>>         \* value is None
            THEN EnsembleSums(values_with_strategy, weights, i + 1, sums)
            ELSE EnsembleSums(values_with_strategy, weights, i + 1,
                     [weighted_sum |-> QAdd(sums.weighted_sum, QMul(value, weight)),
                      total_weight |-> QAdd(sums.total_weight, weight)])

\* a weighted average whose denominator counts the weight of a value that is
\* None as well
EnsembleWeightedAverageAllWeights(values_with_strategy, weights) ==
    LET sums == EnsembleSums(values_with_strategy, weights, 1,
                             [weighted_sum |-> Zero, total_weight |-> Zero])
        weight(i) == Get(weights, values_with_strategy[i][2], Zero)
        total_weight == QAdd(QAdd(weight(1), weight(2)), weight(3))
    IN  IF total_weight = Zero THEN Half
        ELSE QDiv(sums.weighted_sum, total_weight)

\* EnsembleStrategy._weighted_average
EnsembleWeightedAverage(values_with_strategy, weights) ==
    LET sums == EnsembleSums(values_with_strategy, weights, 1,
                             [weighted_sum |-> Zero, total_weight |-> Zero])
    IN  IF sums.total_weight = Zero THEN Half
        ELSE QDiv(sums.weighted_sum, sums.total_weight)

\* EnsembleStrategy._compute_final_score
EnsembleComputeFinalScore(relevance, clarity, hallucination_risk) ==
    Clamp01(QAdd(QAdd(QMul(Frac(45, 100), relevance), QMul(Frac(30, 100), clarity)),
                 QMul(Frac(25, 100), QSub(One, hallucination_risk))))

\* a field of a component score, as a number, or None without the score
FieldOf(score, field) ==
    IF score.valid THEN Frac(score[field], ScoreUnit) ELSE <<>>

\* the body of the loop of EnsembleStrategy.evaluate
EnsembleCombine(model_id, h_score, e_score, j_score, weights) ==
    LET average(field) ==
            EnsembleWeightedAverage(<<<<FieldOf(h_score, field), "heuristic">>,
                                      <<FieldOf(e_score, field), "embedding">>,
                                      <<FieldOf(j_score, field), "llm_judge">>>>,
                                    weights)
        relevance == average("relevance")
        clarity == average("clarity")
        hallucination_risk == average("hallucination_risk")
        final_score == EnsembleComputeFinalScore(relevance, clarity, hallucination_risk)
    IN  EvaluationScore(model_id, Round(relevance, 4), Round(clarity, 4),
                        Round(hallucination_risk, 4), Round(final_score, 4),
                        "ensemble", FALSE)

\* EnsembleStrategy.evaluate, once the strategies have returned their scores
EnsembleScores(prompt_words, prompt_embedding, responses, context_embedding, use_llm_judge, weights) ==
    LET heuristic_scores == HeuristicScores(prompt_words, responses, NoWeights)
        embedding_scores == EmbeddingScores(prompt_embedding, responses, context_embedding)
        llm_judge_scores == JudgeScores(responses)
        used == EnsembleWeights(use_llm_judge, weights)
    IN  [i \in DOMAIN responses |->
            EnsembleCombine(responses[i].model_id, heuristic_scores[i],
                            embedding_scores[i],
                            IF use_llm_judge THEN llm_judge_scores[i] ELSE NoScore,
                            used)]

-----------------------------------------------------------------------------
(***************************************************************************)
(* The calls of the strategies.  A strategy keeps nothing from one call of *)
(* evaluate to the next, so a behaviour holds one call: its arguments are  *)
(* in ret.args and what it returned or raised in ret.                      *)
(***************************************************************************)
\* the number of meaningful words of the prompt
PromptWordCounts == {0, 2}

\* texts by their counts and the latency of the response, <<length, words,
\* endings, paragraphs, markers, latency_ms>>: the empty text, one long word
\* (slowly), one sentence of 17 words (at once, and in two seconds), a list of
\* three sentences in two paragraphs, and 400 words without a full stop
TextShapes == {<<0, 0, 0, 0, FALSE, 20>>, <<30, 1, 0, 0, FALSE, 40000>>,
               <<100, 17, 1, 0, FALSE, 0>>, <<100, 17, 1, 0, FALSE, 2000>>,
               <<300, 51, 3, 1, TRUE, 20>>, <<2000, 400, 0, 0, FALSE, 20>>}

\* embeddings, all of an integer norm
Embeddings == {<<0, 0>>, <<1, 0>>, <<-1, 0>>, <<3, 4>>}

\* texts by <<the pieces text.split(".") has, the formatting bonus in 1/100,
\* the latency in milliseconds>>
EmbeddedTexts == {<<0, 0, 20>>, <<1, 3, 40000>>, <<5, 13, 2000>>, <<40, 5, 20>>}

\* a judge that has not been asked
NoAnswer == JudgeAnswer("text", "prose", "null", NoFields)

Scores3(relevance, clarity, hallucination_risk) ==
    [relevance |-> relevance, clarity |-> clarity,
     hallucination_risk |-> hallucination_risk]

\* what a judge may do: raise, answer in prose, answer JSON that is no object
\* or an empty one, answer scores (bare, fenced, within prose, with a key
\* missing), answer an object of other keys, answer scores out of range (by
\* much, and by less than the rounding takes away), or true, false, text or
\* null for a score
JudgeAnswers ==
    {JudgeAnswer("raises", "prose", "null", NoFields),
     NoAnswer,
     JudgeAnswer("text", "json", "array", NoFields),
     JudgeAnswer("text", "json", "null", NoFields),
     JudgeAnswer("text", "json", "object", NoFields),
     JudgeAnswer("text", "json", "object",
                 Scores3(Number(90000), Number(80000), Number(10000))),
     JudgeAnswer("text", "fenced", "object",
                 [relevance |-> Number(33336), hallucination_risk |-> Number(0)]),
     JudgeAnswer("text", "embedded", "object",
                 Scores3(Number(100000), Number(70000), Number(20000))),
     JudgeAnswer("text", "embedded", "object", [score |-> Number(90000)]),
     JudgeAnswer("text", "json", "object", [score |-> Number(90000)]),
     JudgeAnswer("text", "json", "object",
                 Scores3(Number(150000), Number(50000), Number(50000))),
     JudgeAnswer("text", "json", "object",
                 Scores3(Number(50000), Number(50000), Number(-20000))),
     JudgeAnswer("text", "json", "object",
                 Scores3(Number(100004), Number(50000), Number(-4))),
     JudgeAnswer("text", "json", "object",
                 Scores3(Boolean(TRUE), Number(50000), Boolean(FALSE))),
     JudgeAnswer("text", "json", "object",
                 Scores3(NotANumber("string"), Number(50000), Number(50000))),
     JudgeAnswer("text", "fenced", "object",
                 Scores3(Number(50000), NotANumber("null"), Number(50000)))}

\* the weights a caller may give the heuristic strategy
HeuristicWeightSets ==
    {NoWeights,
     [relevance |-> Frac(1, 2), clarity |-> Frac(1, 2), hallucination |-> Frac(1, 2)],
     [relevance |-> Frac(1, 10), clarity |-> Frac(1, 10), hallucination |-> Frac(1, 10)],
     [relevance |-> Frac(2, 1)],
     [relevance |-> Frac(-1, 2), clarity |-> Frac(1, 2), hallucination |-> Frac(1, 2)]}

\* the weights a caller may give the ensemble
EnsembleWeightSets ==
    {NoWeights,
     [heuristic |-> Frac(1, 1), embedding |-> Frac(1, 1), llm_judge |-> Frac(1, 1)],
     [heuristic |-> Frac(3, 1), embedding |-> Frac(5, 1)],
     [llm_judge |-> Frac(1, 1)],
     [heuristic |-> Frac(-1, 1), embedding |-> Frac(2, 1)]}

\* the responses whose text varies
TextResponses(prompt_words) ==
    {r \in {Response("", s[1], s[2], s[3], s[4], s[5], overlap, 1, 0, s[6],
                      <<1, 0>>, NoAnswer) :
                s \in TextShapes, overlap \in 0..prompt_words} :
        r.overlap <= r.words}

\* the responses whose embedding varies
EmbeddedResponses ==
    {Response("", 100, 17, 1, 0, FALSE, 0, t[1], t[2], t[3], embedding, NoAnswer) :
        embedding \in Embeddings, t \in EmbeddedTexts}

\* the responses whose judgement varies
JudgedResponses ==
    {Response("", 100, 17, 1, 0, FALSE, 0, 1, 0, 2000, <<1, 0>>, answer) :
        answer \in JudgeAnswers}

\* a few responses that differ for every strategy
MixedResponses ==
    {Response("", 0, 0, 0, 0, FALSE, 0, 0, 0, 20, <<0, 0>>,
              JudgeAnswer("raises", "prose", "null", NoFields)),
     Response("", 100, 17, 1, 0, FALSE, 1, 1, 0, 2000, <<1, 0>>,
              JudgeAnswer("text", "json", "object",
                          Scores3(Number(90000), Number(80000), Number(10000)))),
     Response("", 300, 51, 3, 1, TRUE, 0, 40, 13, 40000, <<-1, 0>>,
              JudgeAnswer("text", "json", "object",
                          Scores3(Number(0), Number(100000), Number(100000)))),
     Response("", 2000, 400, 0, 0, FALSE, 1, 1, 0, 0, <<3, 4>>, NoAnswer)}

\* the lengths of the list of responses
ResponseCounts == 0..MaxResponses

\* a list of responses, the response at position i carrying the model id
\* ModelIds[i]
WithModelIds(list) ==
    [i \in DOMAIN list |-> [list[i] EXCEPT !.model_id = ModelIds[i]]]

\* no call of a strategy yet
NotCalled == ret.op = "construct"

\* HeuristicStrategy.evaluate
HeuristicEvaluate ==
    /\ NotCalled
    /\ \E prompt_words \in PromptWordCounts, weights \in HeuristicWeightSets :
        \E n \in ResponseCounts : \E list \in [1..n -> TextResponses(prompt_words)] :
            LET responses == WithModelIds(list)
            IN  ret' = Returned("heuristic",
                            HeuristicScores(prompt_words, responses, weights),
                            [prompt_words |-> prompt_words, responses |-> responses,
                             weights |-> weights])
    /\ UNCHANGED <<storeVars, diskVars, saved, appVars>>

\* EmbeddingSimilarityStrategy.evaluate
EmbeddingEvaluate ==
    /\ NotCalled
    /\ \E prompt_embedding \in Embeddings \ {<<-1, 0>>},
          context_embedding \in {NoContext, <<1, 0>>, <<-1, 0>>} :
        \E n \in ResponseCounts : \E list \in [1..n -> EmbeddedResponses] :
            LET responses == WithModelIds(list)
            IN  ret' = Returned("embedding_similarity",
                            EmbeddingScores(prompt_embedding, responses,
                                            context_embedding),
                            [prompt_embedding |-> prompt_embedding,
                             responses |-> responses,
                             context_embedding |-> context_embedding])
    /\ UNCHANGED <<storeVars, diskVars, saved, appVars>>

\* LLMJudgeStrategy.evaluate
JudgeEvaluate ==
    /\ NotCalled
    /\ \E n \in ResponseCounts : \E list \in [1..n -> JudgedResponses] :
            LET responses == WithModelIds(list)
            IN  ret' = Returned("llm_judge", JudgeScores(responses),
                            [responses |-> responses])
    /\ UNCHANGED <<storeVars, diskVars, saved, appVars>>

\* EnsembleStrategy.evaluate
EnsembleEvaluate ==
    /\ NotCalled
    /\ \E prompt_words \in {0, 1}, prompt_embedding \in {<<1, 0>>},
          context_embedding \in {NoContext, <<-1, 0>>},
          use_llm_judge \in BOOLEAN, weights \in EnsembleWeightSets :
        \E n \in ResponseCounts : \E list \in [1..n -> MixedResponses] :
            LET responses == WithModelIds(list)
            IN  ret' = Returned("ensemble",
                            EnsembleScores(prompt_words, prompt_embedding, responses,
                                           context_embedding, use_llm_judge, weights),
                            [prompt_words |-> prompt_words,
                             prompt_embedding |-> prompt_embedding,
                             responses |-> responses,
                             context_embedding |-> context_embedding,
                             use_llm_judge |-> use_llm_judge,
                             weights |-> weights])
    /\ UNCHANGED <<storeVars, diskVars, saved, appVars>>

\* one call of one strategy
NextEval ==
    \/ HeuristicEvaluate
    \/ EmbeddingEvaluate
    \/ JudgeEvaluate
    \/ EnsembleEvaluate

SpecEval == Init /\ [][NextEval]_vars

-----------------------------------------------------------------------------
(***************************************************************************)
(* Comparator                                                              *)
(***************************************************************************)
\* the most scores in a call of get_ranking or get_winner
MaxScores == 3

EvaluationModes ==
    {"heuristic", "embedding_similarity", "llm_judge", "human_vote", "ensemble"}

\* mode = None
NoMode == "None"

\* settings.EVALUATION_MODE
DefaultEvaluationMode == "heuristic"

\* self._ensemble = None
NoEnsemble == [made |-> FALSE]

\* sorted_scores with one more score: a stable sort puts it behind the scores
\* that are not below it
InsertByFinalScore(sorted_scores, score) ==
    LET k == Cardinality({j \in DOMAIN sorted_scores :
                             sorted_scores[j].final_score >= score.final_score})
    IN  SubSeq(sorted_scores, 1, k) \o <<score>>
            \o SubSeq(sorted_scores, k + 1, Len(sorted_scores))

RECURSIVE SortedFrom(_, _, _)
SortedFrom(scores, i, sorted_scores) ==
    IF i > Len(scores) THEN sorted_scores
    ELSE SortedFrom(scores, i + 1, InsertByFinalScore(sorted_scores, scores[i]))

\* a sort by final_score that puts a score before the scores that equal it
SortedByFinalScoreLastFirst(scores) ==
    LET before(i) == Cardinality({j \in DOMAIN scores :
                         \/ scores[j].final_score > scores[i].final_score
                         \/ /\ scores[j].final_score = scores[i].final_score
                            /\ j > i})
    IN  [k \in DOMAIN scores |-> scores[CHOOSE i \in DOMAIN scores : before(i) = k - 1]]

\* sorted(scores, key=lambda s: s.final_score, reverse=True)
SortedByFinalScore(scores) == SortedFrom(scores, 1, <<>>)

\* Comparator.get_ranking
GetRanking(scores) ==
    LET sorted_scores == SortedByFinalScore(scores)
    IN  [k \in DOMAIN sorted_scores |-> sorted_scores[k].model_id]

\* the return value None
None == "None"

\* the model id of the first score of the list
GetWinnerFirstGiven(scores) ==
    IF Len(scores) = 0 THEN None ELSE scores[1].model_id

\* Comparator.get_winner
GetWinner(scores) ==
    IF Len(scores) = 0 THEN None
    ELSE SortedByFinalScore(scores)[1].model_id

\* Comparator.__init__
ComparatorConstruct ==
    /\ ~comparator.made
    /\ \E mode \in EvaluationModes \cup {NoMode} :
        comparator' = [made |-> TRUE,
                       mode |-> IF mode = NoMode THEN DefaultEvaluationMode ELSE mode,
                       embedding |-> FALSE,
                       llm_judge |-> FALSE,
                       ensemble |-> NoEnsemble]
    /\ ret' = Ret("Comparator", "", 0, <<>>)
    /\ UNCHANGED <<storeVars, diskVars, saved, fanout, engine, embedder, chunker, callers>>

\* the responses a Comparator is given
ComparedResponses == {r \in MixedResponses : r.length \in {100, 300}}

\* the weights a caller may give Comparator.evaluate
ComparatorWeightSets ==
    {NoWeights,
     [heuristic |-> Frac(3, 1), embedding |-> Frac(5, 1)]}

\* Comparator.evaluate, for a prompt that shares prompt_words - 1 words with
\* no response and has the embedding <<1, 0>>
ComparatorEvaluateCall(responses, mode, reference, weights) ==
    LET eval_mode == IF mode = NoMode THEN comparator.mode ELSE mode
        ensemble == IF comparator.ensemble.made THEN comparator.ensemble
                    ELSE [made |-> TRUE, weights |-> EnsembleWeights(FALSE, weights)]
        scores ==
            CASE eval_mode = "heuristic" -> HeuristicScores(1, responses, NoWeights)
              [] eval_mode = "embedding_similarity" ->
                    EmbeddingScores(<<1, 0>>, responses, reference)
              [] eval_mode = "llm_judge" -> JudgeScores(responses)
              [] eval_mode = "ensemble" ->
                    EnsembleScores(1, <<1, 0>>, responses, reference, FALSE,
                                   ensemble.weights)
              [] OTHER -> HeuristicScores(1, responses, NoWeights)
    IN  /\ comparator' =
               [comparator EXCEPT
                   !.embedding = @ \/ eval_mode = "embedding_similarity",
                   !.llm_judge = @ \/ eval_mode = "llm_judge",
                   !.ensemble = IF eval_mode = "ensemble" THEN ensemble ELSE @]
        /\ ret' = Returned("evaluate", scores,
                           [responses |-> responses, mode |-> mode,
                            eval_mode |-> eval_mode, reference |-> reference,
                            weights |-> weights])

ComparatorEvaluate ==
    /\ comparator.made
    /\ \E mode \in EvaluationModes \cup {NoMode}, reference \in {NoContext},
          weights \in ComparatorWeightSets :
        \E n \in ResponseCounts : \E list \in [1..n -> ComparedResponses] :
            ComparatorEvaluateCall(WithModelIds(list), mode, reference, weights)
    /\ UNCHANGED <<storeVars, diskVars, saved, fanout, engine, embedder, chunker, callers>>

\* the final scores of the lists given to get_ranking and get_winner
FinalScores == {2000, 5000, 9000}

\* the lists of scores with these final scores, score i of the model ModelIds[i]
ScoreLists ==
    UNION {{[i \in 1..n |-> EvaluationScore(ModelIds[i], 5000, 5000, 5000, f[i],
                                            "heuristic", FALSE)] :
               f \in [1..n -> FinalScores]} : n \in 0..MaxScores}

\* Comparator.get_ranking
ComparatorGetRanking ==
    /\ comparator.made
    /\ \E scores \in ScoreLists :
        ret' = Ret("get_ranking", "", GetRanking(scores), [scores |-> scores])
    /\ UNCHANGED <<storeVars, diskVars, saved, appVars>>

\* Comparator.get_winner
ComparatorGetWinner ==
    /\ comparator.made
    /\ \E scores \in ScoreLists :
        ret' = Ret("get_winner", "", GetWinner(scores), [scores |-> scores])
    /\ UNCHANGED <<storeVars, diskVars, saved, appVars>>

-----------------------------------------------------------------------------
(***************************************************************************)
(* The route POST /evaluate                                                *)
(***************************************************************************)
\* _evaluate_heuristic of the route, for one response; prompt_words is the
\* number of distinct words of the prompt and response.overlap the number of
\* them in the text
RouteEvaluateHeuristicOne(prompt_words, response, weights) ==
    LET relevance ==
            QMin(One, QMul(Frac(response.overlap,
                                IF prompt_words > 1 THEN prompt_words ELSE 1),
                           Frac(2, 1)))
        avg_sentence_len ==
            Frac(response.words, IF response.endings > 1 THEN response.endings ELSE 1)
        clarity ==
            QMin(One, QMax(Zero,
                QSub(One, QDiv(QAbs(QSub(avg_sentence_len, Frac(15, 1))),
                               Frac(30, 1)))))
        latency_factor == QMin(One, Frac(response.latency_ms, 5000))
        hallucination_risk == QMul(latency_factor, Half)
        used == IF DOMAIN weights = {} THEN HeuristicDefaultWeights ELSE weights
        final_score ==
            QAdd(QAdd(QMul(relevance, Get(used, "relevance", Frac(4, 10))),
                      QMul(clarity, Get(used, "clarity", Frac(3, 10)))),
                 QMul(QSub(One, hallucination_risk),
                      Get(used, "hallucination", Frac(3, 10))))
    IN  EvaluationScore(response.model_id, Round(relevance, 3), Round(clarity, 3),
                        Round(hallucination_risk, 3), Round(final_score, 3),
                        "heuristic", FALSE)

\* _evaluate_heuristic of the route
RouteEvaluateHeuristic(prompt_words, responses, weights) ==
    [i \in DOMAIN responses |->
        RouteEvaluateHeuristicOne(prompt_words, responses[i], weights)]

\* the responses of a request to the route
RouteResponses ==
    {Response("", s[1], s[2], s[3], s[4], s[5], overlap, 1, 0, s[6], <<1, 0>>, NoAnswer) :
        s \in TextShapes, overlap \in {0, 1}}

\* evaluate_responses: every mode but human_vote scores with _evaluate_heuristic
\* (the other strategies fall back to it), human_vote is refused
EvaluateResponsesCall(prompt_words, responses, mode, weights) ==
    LET scores == RouteEvaluateHeuristic(prompt_words, responses, weights)
        ranking == GetRanking(scores)
        winner == IF Len(ranking) > 0 THEN ranking[1] ELSE None
        args == [prompt_words |-> prompt_words, responses |-> responses,
                 mode |-> mode, weights |-> weights]
    IN  IF mode = "human_vote"
        THEN ret' = Ret("evaluate_responses", "HTTPException 400", <<>>, args)
        ELSE IF \E i \in DOMAIN scores : ~scores[i].valid
        THEN ret' = Ret("evaluate_responses", "ValidationError", <<>>, args)
        ELSE ret' = Ret("evaluate_responses", "",
                        [scores |-> scores, winner |-> winner, ranking |-> ranking],
                        args)

\* the route keeps nothing between requests: a behaviour holds one request
EvaluateResponses ==
    /\ NotCalled
    /\ \E prompt_words \in {2}, mode \in EvaluationModes,
          weights \in {NoWeights, [relevance |-> Frac(2, 1)]} :
        \E n \in ResponseCounts \ {0} : \E list \in [1..n -> RouteResponses] :
            EvaluateResponsesCall(prompt_words, WithModelIds(list), mode, weights)
    /\ UNCHANGED <<storeVars, diskVars, saved, appVars>>

\* a Comparator and its calls of evaluate
NextCompare ==
    \/ ComparatorConstruct
    \/ ComparatorEvaluate

SpecCompare == Init /\ [][NextCompare]_vars

\* the rankings: of a Comparator, and of the route
NextRank ==
    \/ ComparatorConstruct
    \/ ComparatorGetRanking
    \/ ComparatorGetWinner
    \/ EvaluateResponses

SpecRank == Init /\ [][NextRank]_vars

-----------------------------------------------------------------------------
(***************************************************************************)
(* The route POST /prompt: submit_prompt.                                  *)
(*                                                                         *)
(* asyncio.gather runs one generate_for_model per model id; the calls of   *)
(* runner.generate end in any order, each by returning a response or by    *)
(* raising, and gather returns the results in the order of the tasks.      *)
(***************************************************************************)
\* the most model ids of a request
MaxModels == 3

\* the models a request may name
RequestedModels == {"model-a", "model-b"}

\* the result of a task that has not ended, and the result None
Pending == [state |-> "pending"]
NoResponse == [state |-> "None"]

\* where the context of the prompt comes from: none, request.context_text, a
\* retrieval that returns, a retrieval that raises
ContextSources == {"none", "context_text", "retrieve", "retrieve raises"}

\* submit_prompt up to asyncio.gather: the model ids, the context and the tasks
SubmitPrompt ==
    /\ ~fanout.made
    /\ \E n \in 0..MaxModels, available \in {<<>>, <<"model-a", "model-b">>},
          context \in ContextSources :
        \E requested \in [1..n -> RequestedModels] :
            LET model_ids == IF Len(requested) = 0 THEN available ELSE requested
                args == [model_ids |-> requested, available |-> available,
                         context |-> context]
            IN  IF Len(model_ids) = 0
                THEN /\ ret' = Ret("submit_prompt", "HTTPException 503", <<>>, args)
                     /\ UNCHANGED fanout
                ELSE /\ fanout' = [made |-> TRUE,
                                   model_ids |-> model_ids,
                                   rag_context |-> context \in {"context_text", "retrieve"},
                                   results |-> [i \in DOMAIN model_ids |-> Pending],
                                   ended |-> <<>>,
                                   gathered |-> FALSE]
                     /\ ret' = Ret("submit_prompt", "pending", <<>>, args)
    /\ UNCHANGED <<storeVars, diskVars, saved, comparator, engine, embedder, chunker, callers>>

\* generate_for_model: runner.generate returns the response of task i
GenerateReturns ==
    /\ fanout.made
    /\ \E i \in DOMAIN fanout.results :
        /\ fanout.results[i] = Pending
        /\ fanout' = [fanout EXCEPT
                         !.results[i] = [state |-> "returned",
                                         model_id |-> fanout.model_ids[i],
                                         task |-> i],
                         !.ended = Append(@, i)]
    /\ UNCHANGED <<storeVars, diskVars, saved, ret, comparator, engine, embedder, chunker, callers>>

\* generate_for_model: runner.generate raises and the task returns None
GenerateRaises ==
    /\ fanout.made
    /\ \E i \in DOMAIN fanout.results :
        /\ fanout.results[i] = Pending
        /\ fanout' = [fanout EXCEPT !.results[i] = NoResponse, !.ended = Append(@, i)]
    /\ UNCHANGED <<storeVars, diskVars, saved, ret, comparator, engine, embedder, chunker, callers>>

\* a filter that keeps the results in the order the tasks ended
RECURSIVE ResponsesAsEnded(_, _)
ResponsesAsEnded(results, i) ==
    IF i > Len(fanout.ended) THEN <<>>
    ELSE IF results[fanout.ended[i]] = NoResponse THEN ResponsesAsEnded(results, i + 1)
    ELSE <<results[fanout.ended[i]]>> \o ResponsesAsEnded(results, i + 1)

\* [r for r in results if r is not None], from result i on
RECURSIVE Responses(_, _)
Responses(results, i) ==
    IF i > Len(results) THEN <<>>
    ELSE IF results[i] = NoResponse THEN Responses(results, i + 1)
    ELSE <<results[i]>> \o Responses(results, i + 1)

\* submit_prompt from the return of asyncio.gather on
GatherReturns ==
    /\ fanout.made
    /\ ~fanout.gathered
    /\ \A i \in DOMAIN fanout.results : fanout.results[i] # Pending
    /\ LET responses == Responses(fanout.results, 1)
       IN  ret' = IF Len(responses) = 0
                  THEN Ret("submit_prompt", "HTTPException 500", <<>>, ret.args)
                  ELSE Ret("submit_prompt", "",
                           [responses |-> responses,
                            rag_context |-> fanout.rag_context], ret.args)
    /\ fanout' = [fanout EXCEPT !.gathered = TRUE]
    /\ UNCHANGED <<storeVars, diskVars, saved, comparator, engine, embedder, chunker, callers>>

NextPrompt ==
    \/ SubmitPrompt
    \/ GenerateReturns
    \/ GenerateRaises
    \/ GatherReturns

SpecPrompt == Init /\ [][NextPrompt]_vars

-----------------------------------------------------------------------------
(***************************************************************************)
(* DocumentChunker                                                         *)
(*                                                                         *)
(* A text is a sequence of characters, each a one-character string; Nul    *)
(* stands for the character "\x00".                                        *)
(***************************************************************************)
Nul == "NUL"

\* the characters str.strip() and the pattern \s take for whitespace
Whitespace == {" ", "\n"}

\* the texts of at most n characters over the alphabet
TextsUpTo(alphabet, n) == UNION {SeqsOfLen(alphabet, k) : k \in 0..n}

\* str.lstrip()
RECURSIVE LStrip(_)
LStrip(text) ==
    IF text # <<>> /\ Head(text) \in Whitespace THEN LStrip(Tail(text)) ELSE text

\* str.rstrip(chars): drops the trailing characters that occur in chars
RECURSIVE RStrip(_, _)
RStrip(text, chars) ==
    IF text # <<>> /\ text[Len(text)] \in chars
    THEN RStrip(SubSeq(text, 1, Len(text) - 1), chars)
    ELSE text

\* str.strip()
Strip(text) == LStrip(RStrip(text, Whitespace))

\* str.find(sub) from the 1-based position i on: the 0-based position of the
\* first occurrence, -1 when there is none
RECURSIVE FindFrom(_, _, _)
FindFrom(text, sub, i) ==
    IF i + Len(sub) - 1 > Len(text) THEN -1
    ELSE IF SubSeq(text, i, i + Len(sub) - 1) = sub THEN i - 1
    ELSE FindFrom(text, sub, i + 1)

\* str.find(sub)
Find(text, sub) == FindFrom(text, sub, 1)

\* str.split(separator), for a separator that is not empty
RECURSIVE Split(_, _)
Split(text, separator) ==
    LET at == Find(text, separator)
    IN  IF at < 0 THEN <<text>>
        ELSE <<SubSeq(text, 1, at)>>
                 \o Split(SubSeq(text, at + Len(separator) + 1, Len(text)), separator)

\* list(text)
Characters(text) == [i \in DOMAIN text |-> <<text[i]>>]

\* self._separators
Separators ==
    << <<"\n", "\n">>, <<"\n">>, <<".", " ">>, <<"!", " ">>, <<"?", " ">>,
       <<";", " ">>, <<",", " ">>, <<" ">>, <<>> >>

\* the overlap text of _add_overlap: the tail of the previous chunk, cut
\* after its first space when that space is not its first character
OverlapText(prev_chunk, chunk_overlap) ==
    LET overlap_start == IF Len(prev_chunk) - chunk_overlap > 0
                         THEN Len(prev_chunk) - chunk_overlap ELSE 0
        overlap_text == SubSeq(prev_chunk, overlap_start + 1, Len(prev_chunk))
        space_idx == Find(overlap_text, <<" ">>)
    IN  IF space_idx > 0
        THEN SubSeq(overlap_text, space_idx + 2, Len(overlap_text))
        ELSE overlap_text

\* DocumentChunker._add_overlap
AddOverlap(chunks, chunk_overlap) ==
    IF Len(chunks) <= 1 THEN chunks
    ELSE [i \in DOMAIN chunks |->
            IF i = 1 THEN chunks[1]
            ELSE IF SubSeq(chunks[i - 1],
                           (IF Len(chunks[i - 1]) - chunk_overlap > 0
                            THEN Len(chunks[i - 1]) - chunk_overlap ELSE 0) + 1,
                           Len(chunks[i - 1])) # <<>>
            THEN OverlapText(chunks[i - 1], chunk_overlap) \o <<" ">> \o chunks[i]
            ELSE chunks[i]]

RECURSIVE ChunkRecursive(_, _, _, _)
RECURSIVE MergeSplits(_, _, _, _, _, _, _, _)

\* the loop of _chunk_recursive over the splits, from split i on, with the
\* chunks made so far and the current chunk; returns both after the loop
MergeSplits(splits, i, chunks, current_chunk, separator, remaining_separators, chunk_size, chunk_overlap) ==
    IF i > Len(splits) THEN [chunks |-> chunks, current_chunk |-> current_chunk]
    ELSE
        LET split == splits[i]
            split_with_sep == split \o separator
        IN  IF Len(current_chunk) + Len(split_with_sep) > chunk_size
            THEN
                LET flushed ==
                        IF current_chunk = <<>> THEN chunks
                        ELSE IF Len(current_chunk) <= chunk_size
                        THEN Append(chunks, RStrip(current_chunk, Range(separator)))
                        ELSE chunks \o ChunkRecursive(current_chunk, remaining_separators,
                                                      chunk_size, chunk_overlap)
                IN  IF Len(split_with_sep) > chunk_size
                    THEN
                        LET sub_chunks == ChunkRecursive(split, remaining_separators,
                                                         chunk_size, chunk_overlap)
                        IN  IF sub_chunks # <<>>
                            THEN MergeSplits(splits, i + 1,
                                     flushed \o SubSeq(sub_chunks, 1, Len(sub_chunks) - 1),
                                     sub_chunks[Len(sub_chunks)] \o separator,
                                     separator, remaining_separators, chunk_size, chunk_overlap)
                            ELSE MergeSplits(splits, i + 1, flushed, <<>>,
                                     separator, remaining_separators, chunk_size, chunk_overlap)
                    ELSE MergeSplits(splits, i + 1, flushed, split_with_sep,
                             separator, remaining_separators, chunk_size, chunk_overlap)
            ELSE MergeSplits(splits, i + 1, chunks, current_chunk \o split_with_sep,
                     separator, remaining_separators, chunk_size, chunk_overlap)

\* DocumentChunker._chunk_recursive
ChunkRecursive(text, separators, chunk_size, chunk_overlap) ==
    IF Len(text) <= chunk_size
    THEN IF Strip(text) # <<>> THEN <<text>> ELSE <<>>
    ELSE
        LET separator == IF separators # <<>> THEN separators[1] ELSE <<>>
            remaining_separators == IF Len(separators) > 1 THEN Tail(separators) ELSE <<>>
            splits == IF separator # <<>> THEN Split(text, separator) ELSE Characters(text)
            merged == MergeSplits(splits, 1, <<>>, <<>>, separator, remaining_separators,
                                  chunk_size, chunk_overlap)
            final_chunk == Strip(RStrip(merged.current_chunk, Range(separator)))
            chunks ==
                IF Strip(merged.current_chunk) = <<>> THEN merged.chunks
                ELSE IF Len(final_chunk) <= chunk_size
                THEN Append(merged.chunks, final_chunk)
                ELSE merged.chunks \o ChunkRecursive(final_chunk, remaining_separators,
                                                     chunk_size, chunk_overlap)
        IN  IF chunk_overlap > 0 /\ Len(chunks) > 1
            THEN AddOverlap(chunks, chunk_overlap)
            ELSE chunks

\* re.sub(r'\s+', ' ', text)
RECURSIVE CollapseWhitespace(_)
CollapseWhitespace(text) ==
    IF text = <<>> THEN <<>>
    ELSE IF Head(text) \in Whitespace
    THEN <<" ">> \o CollapseWhitespace(LStrip(text))
    ELSE <<Head(text)>> \o CollapseWhitespace(Tail(text))

\* text.replace('\x00', '')
RECURSIVE RemoveNul(_)
RemoveNul(text) ==
    IF text = <<>> THEN <<>>
    ELSE IF Head(text) = Nul THEN RemoveNul(Tail(text))
    ELSE <<Head(text)>> \o RemoveNul(Tail(text))

\* DocumentChunker._clean_text
CleanText(text) == Strip(RemoveNul(CollapseWhitespace(text)))

\* the chunk objects of DocumentChunker.chunk: the stripped raw chunks that
\* are not empty, in order, each with its position among the raw chunks
ChunkObjects(raw_chunks) ==
    LET kept(i) == Cardinality({j \in 1..i : Strip(raw_chunks[j]) # <<>>})
    IN  [k \in 1..kept(Len(raw_chunks)) |->
            LET i == CHOOSE i \in DOMAIN raw_chunks :
                         Strip(raw_chunks[i]) # <<>> /\ kept(i) = k
            IN  [content |-> Strip(raw_chunks[i]), chunk_index |-> i - 1,
                 total_chunks |-> Len(raw_chunks)]]

\* chunk as it would be if a text without content gave one empty chunk
ChunkKeepsBlank(text, chunk_size, chunk_overlap) ==
    IF CleanText(text) = <<>>
    THEN <<[content |-> <<>>, chunk_index |-> 0, total_chunks |-> 1]>>
    ELSE ChunkObjects(ChunkRecursive(CleanText(text), Separators,
                                     chunk_size, chunk_overlap))

\* DocumentChunker.chunk, with the recursive strategy
Chunk(text, chunk_size, chunk_overlap) ==
    IF Strip(text) = <<>> THEN <<>>
    ELSE ChunkObjects(ChunkRecursive(CleanText(text), Separators,
                                     chunk_size, chunk_overlap))

\* the texts, chunk sizes and overlaps the chunker is called with
ChunkAlphabet == {"a", " ", "."}
MaxTextLen == 3
ChunkTexts == TextsUpTo(ChunkAlphabet, MaxTextLen)
ChunkSizes == {2, 3}
ChunkOverlaps == {0, 1}

\* a call of DocumentChunker._chunk_recursive with all the separators
ChunkRecursiveCall ==
    /\ NotCalled
    /\ \E text \in ChunkTexts, chunk_size \in ChunkSizes, chunk_overlap \in ChunkOverlaps :
        ret' = Ret("_chunk_recursive", "",
                   ChunkRecursive(text, Separators, chunk_size, chunk_overlap),
                   [text |-> text, chunk_size |-> chunk_size,
                    chunk_overlap |-> chunk_overlap])
    /\ UNCHANGED <<storeVars, diskVars, saved, appVars>>

\* a call of DocumentChunker.chunk
ChunkCall ==
    /\ NotCalled
    /\ \E text \in TextsUpTo({"a", " ", Nul}, MaxTextLen),
          chunk_size \in ChunkSizes, chunk_overlap \in ChunkOverlaps :
        ret' = Ret("chunk", "", Chunk(text, chunk_size, chunk_overlap),
                   [text |-> text, chunk_size |-> chunk_size,
                    chunk_overlap |-> chunk_overlap])
    /\ UNCHANGED <<storeVars, diskVars, saved, appVars>>

NextChunk ==
    \/ ChunkRecursiveCall
    \/ ChunkCall

SpecChunk == Init /\ [][NextChunk]_vars

-----------------------------------------------------------------------------
(***************************************************************************)
(* DocumentChunker as an object: its constructor, the loop of the fixed    *)
(* strategy step by step, and the sentence strategy.                       *)
(***************************************************************************)
\* an argument left out by the caller (None), which is no size
NoArg == -1

\* x or default, of Python: None and 0 are both false
PyOr(x, default) == IF x = NoArg \/ x = 0 THEN default ELSE x

\* settings.RAG_CHUNK_SIZE and settings.RAG_CHUNK_OVERLAP of the process
ChunkerSettings ==
    {[chunk_size |-> 2, chunk_overlap |-> 0], [chunk_size |-> 2, chunk_overlap |-> 1]}

\* the chunk_size and chunk_overlap a caller passes, or leaves out
ChunkSizeArgs == {NoArg, 1, 2, 3}
ChunkOverlapArgs == {NoArg, 0, 1, 2}
Strategies3 == {"fixed", "sentence", "recursive"}

\* the most chunks the loop of _chunk_fixed is followed for, and the furthest
\* its window start is followed below 0
MaxFixedChunks == 4

\* DocumentChunker.__init__
DocumentChunkerInit(chunk_size, chunk_overlap, strategy, settings) ==
    [made |-> TRUE,
     chunk_size |-> PyOr(chunk_size, settings.chunk_size),
     chunk_overlap |-> PyOr(chunk_overlap, settings.chunk_overlap),
     strategy |-> strategy, pc |-> "idle"]

\* the DocumentChunker index_document creates for the chunk_size and
\* chunk_overlap of its call, in an engine built from settings
IndexDocumentChunker(chunk_size, chunk_overlap, settings) ==
    DocumentChunkerInit(PyOr(chunk_size, settings.chunk_size),
                        PyOr(chunk_overlap, settings.chunk_overlap),
                        "recursive", settings)

\* text[start:end] of Python, either index possibly negative or past the end
PySlice(text, start, end) ==
    LET norm(i) == IF i < 0 THEN (IF i + Len(text) < 0 THEN 0 ELSE i + Len(text))
                   ELSE Min(i, Len(text))
    IN  SubSeq(text, norm(start) + 1, norm(end))

\* one pass of the while loop of _chunk_fixed: the window, the chunk kept if
\* it is not empty, the next start, and whether the loop is left
FixedStep(text, start, chunks, chunk_size, chunk_overlap) ==
    LET end == start + chunk_size
        chunk == PySlice(text, start, end)
        next == end - chunk_overlap
    IN  [start |-> next,
         chunks |-> IF chunk # <<>> THEN Append(chunks, chunk) ELSE chunks,
         over |-> next >= Len(text)]

\* DocumentChunker._chunk_fixed as a function, for chunk_overlap < chunk_size
RECURSIVE FixedLoop(_, _, _, _, _)
FixedLoop(text, start, chunks, chunk_size, chunk_overlap) ==
    IF start >= Len(text) THEN chunks
    ELSE LET s == FixedStep(text, start, chunks, chunk_size, chunk_overlap)
         IN  FixedLoop(text, s.start, s.chunks, chunk_size, chunk_overlap)

ChunkFixed(text, chunk_size, chunk_overlap) ==
    FixedLoop(text, 0, <<>>, chunk_size, chunk_overlap)

\* the characters that end a sentence
SentenceEnds == {".", "!", "?"}

\* re.split(r'(?<=[.!?])\s+', text): i is the next character, current the
\* piece read so far
RECURSIVE SplitSentencesFrom(_, _, _)
SplitSentencesFrom(text, i, current) ==
    IF i > Len(text) THEN <<current>>
    ELSE IF text[i] \in Whitespace /\ i > 1 /\ text[i - 1] \in SentenceEnds
    THEN LET rest == {j \in i..Len(text) : text[j] \notin Whitespace}
             j == IF rest = {} THEN Len(text) + 1
                  ELSE CHOOSE j \in rest : \A k \in rest : j <= k
         IN  <<current>> \o SplitSentencesFrom(text, j, <<>>)
    ELSE SplitSentencesFrom(text, i + 1, Append(current, text[i]))

SplitSentences(text) == SplitSentencesFrom(text, 1, <<>>)

\* the test of _chunk_sentences: would this exceed chunk size?
SentenceExceeds(current_chunk, sentence, chunk_size) ==
    Len(current_chunk) + Len(sentence) > chunk_size

\* the loop of _chunk_sentences over the sentences from the i-th on
RECURSIVE PackSentences(_, _, _, _, _, _)
PackSentences(sentences, i, chunks, current_chunk, chunk_size, chunk_overlap) ==
    IF i > Len(sentences)
    THEN IF current_chunk # <<>> THEN Append(chunks, current_chunk) ELSE chunks
    ELSE LET sentence == Strip(sentences[i])
             flushed == IF current_chunk # <<>> THEN Append(chunks, current_chunk)
                        ELSE chunks
             sub_chunks == ChunkFixed(sentence, chunk_size, chunk_overlap)
         IN  IF sentence = <<>>
             THEN PackSentences(sentences, i + 1, chunks, current_chunk,
                                chunk_size, chunk_overlap)
             ELSE IF SentenceExceeds(current_chunk, sentence, chunk_size)
             THEN IF Len(sentence) > chunk_size
                  THEN PackSentences(sentences, i + 1,
                           flushed \o SubSeq(sub_chunks, 1, Len(sub_chunks) - 1),
                           IF sub_chunks # <<>> THEN sub_chunks[Len(sub_chunks)]
                           ELSE <<>>,
                           chunk_size, chunk_overlap)
                  ELSE PackSentences(sentences, i + 1, flushed, sentence,
                                     chunk_size, chunk_overlap)
             ELSE PackSentences(sentences, i + 1, chunks,
                      IF current_chunk # <<>> THEN current_chunk \o <<" ">> \o sentence
                      ELSE sentence,
                      chunk_size, chunk_overlap)

\* DocumentChunker._chunk_sentences
ChunkSentences(text, chunk_size, chunk_overlap) ==
    PackSentences(SplitSentences(text), 1, <<>>, <<>>, chunk_size, chunk_overlap)

\* the texts given to the chunker object
ChunkerTexts == TextsUpTo({"a", ".", " "}, MaxTextLen)

\* DocumentChunker(chunk_size, chunk_overlap, strategy)
ChunkerConstruct ==
    /\ ~chunker.made
    /\ NotCalled
    /\ \E chunk_size \in ChunkSizeArgs, chunk_overlap \in ChunkOverlapArgs,
          strategy \in Strategies3, settings \in ChunkerSettings :
        /\ chunker' = DocumentChunkerInit(chunk_size, chunk_overlap, strategy, settings)
        /\ ret' = Ret("DocumentChunker", "", 0,
                      [chunk_size |-> chunk_size, chunk_overlap |-> chunk_overlap,
                       settings |-> settings])
    /\ UNCHANGED <<storeVars, diskVars, saved, comparator, fanout, engine, embedder, callers>>

\* index_document(content, filename, chunk_size=, chunk_overlap=) as far as
\* the chunker it creates
IndexDocumentCreatesChunker ==
    /\ ~chunker.made
    /\ NotCalled
    /\ \E chunk_size \in ChunkSizeArgs, chunk_overlap \in ChunkOverlapArgs,
          settings \in ChunkerSettings :
        /\ chunker' = IndexDocumentChunker(chunk_size, chunk_overlap, settings)
        /\ ret' = Ret("index_document:DocumentChunker", "", 0,
                      [chunk_size |-> chunk_size, chunk_overlap |-> chunk_overlap,
                       settings |-> settings])
    /\ UNCHANGED <<storeVars, diskVars, saved, comparator, fanout, engine, embedder, callers>>

\* chunk(text) with the fixed strategy, up to the while loop of _chunk_fixed
ChunkFixedStart ==
    /\ chunker.made /\ chunker.strategy = "fixed" /\ chunker.pc = "idle"
    /\ \E text \in ChunkerTexts :
        LET cleaned == IF Strip(text) = <<>> THEN <<>> ELSE CleanText(text)
        IN  chunker' = [made |-> TRUE, chunk_size |-> chunker.chunk_size,
                        chunk_overlap |-> chunker.chunk_overlap,
                        strategy |-> "fixed",
                        pc |-> IF 0 < Len(cleaned) THEN "loop" ELSE "done",
                        text |-> cleaned, start |-> 0, chunks |-> <<>>]
    /\ UNCHANGED <<storeVars, diskVars, saved, ret, comparator, fanout, engine, embedder, callers>>

\* one pass of the while loop of _chunk_fixed
ChunkFixedStep ==
    /\ chunker.made /\ chunker.pc = "loop"
    /\ Len(chunker.chunks) < MaxFixedChunks
    /\ chunker.start > -MaxFixedChunks
    /\ LET s == FixedStep(chunker.text, chunker.start, chunker.chunks,
                          chunker.chunk_size, chunker.chunk_overlap)
       IN  chunker' = [chunker EXCEPT !.start = s.start, !.chunks = s.chunks,
                                      !.pc = IF s.over THEN "done" ELSE "loop"]
    /\ UNCHANGED <<storeVars, diskVars, saved, ret, comparator, fanout, engine, embedder, callers>>

\* chunk(text) with the fixed strategy returns, after the loop
ChunkFixedReturn ==
    /\ chunker.made /\ chunker.pc = "done"
    /\ chunker' = [chunker EXCEPT !.pc = "returned"]
    /\ ret' = Ret("chunk", "",
                  [raw_chunks |-> chunker.chunks, chunks |-> ChunkObjects(chunker.chunks)],
                  [text |-> chunker.text])
    /\ UNCHANGED <<storeVars, diskVars, saved, comparator, fanout, engine, embedder, callers>>

\* chunk(text) with the sentence or the recursive strategy, for
\* chunk_overlap < chunk_size
ChunkOtherCall ==
    /\ chunker.made /\ chunker.strategy # "fixed" /\ chunker.pc = "idle"
    /\ chunker.chunk_overlap < chunker.chunk_size
    /\ chunker.strategy = "recursive" => chunker.chunk_size > 1
    /\ \E text \in ChunkerTexts :
        LET cleaned == IF Strip(text) = <<>> THEN <<>> ELSE CleanText(text)
            raw_chunks ==
                IF Strip(text) = <<>> THEN <<>>
                ELSE IF chunker.strategy = "sentence"
                THEN ChunkSentences(cleaned, chunker.chunk_size, chunker.chunk_overlap)
                ELSE ChunkRecursive(cleaned, Separators, chunker.chunk_size,
                                    chunker.chunk_overlap)
        IN  ret' = Ret("chunk", "",
                       [raw_chunks |-> raw_chunks, chunks |-> ChunkObjects(raw_chunks)],
                       [text |-> cleaned])
    /\ chunker' = [chunker EXCEPT !.pc = "returned"]
    /\ UNCHANGED <<storeVars, diskVars, saved, comparator, fanout, engine, embedder, callers>>

NextChunker ==
    \/ ChunkerConstruct
    \/ IndexDocumentCreatesChunker
    \/ ChunkFixedStart
    \/ ChunkFixedStep
    \/ ChunkFixedReturn
    \/ ChunkOtherCall

SpecChunker == Init /\ [][NextChunker]_vars

-----------------------------------------------------------------------------
(***************************************************************************)
(* EmbeddingService                                                        *)
(*                                                                         *)
(* self._cache is a dict: here the sequence of its entries in insertion    *)
(* order, each a key and the embedding kept under it.  Positions in a      *)
(* batch are 1-based here and 0-based in the code.                         *)
(***************************************************************************)
\* self._cache_max_size, and the most texts in one call of embed
CacheMaxSize == 2
MaxBatch == 3

\* the texts embedded
EmbedTexts == {<<"a">>, <<"b">>, <<"a", "b">>}

\* the number of occurrences of a character in a text
Count(text, char) == Cardinality({i \in DOMAIN text : text[i] = char})

\* what the embedding model computes for one text: a vector of the index's
\* dimension that depends on the text only
Encode(text) == <<Len(text), Count(text, "a")>>

\* np.zeros(self.dimension): a row that was never filled
ZeroRow == <<0, 0>>

\* hash(text): the texts of the model have distinct hashes
Hash(text) == text

\* EmbeddingService._cache_key
CacheKey(text) == <<"model_name", Hash(text)>>

\* cache_key in self._cache
Cached(cache, key) == \E e \in DOMAIN cache : cache[e].key = key

\* self._cache[cache_key]
CacheGet(cache, key) == cache[CHOOSE e \in DOMAIN cache : cache[e].key = key].emb

\* the update of the cache as it would be if the eviction spared the oldest
\* entry and removed the next one
CachePutSparesOldest(cache, key, emb) ==
    LET stored == IF Cached(cache, key)
                  THEN [e \in DOMAIN cache |->
                          IF cache[e].key = key THEN [key |-> key, emb |-> emb]
                          ELSE cache[e]]
                  ELSE Append(cache, [key |-> key, emb |-> emb])
    IN  IF Len(stored) > CacheMaxSize THEN <<Head(stored)>> \o Tail(Tail(stored))
        ELSE stored

\* self._cache[cache_key] = emb, and the eviction of the oldest entry when
\* the cache has grown past its maximum
CachePut(cache, key, emb) ==
    LET stored == IF Cached(cache, key)
                  THEN [e \in DOMAIN cache |->
                          IF cache[e].key = key THEN [key |-> key, emb |-> emb]
                          ELSE cache[e]]
                  ELSE Append(cache, [key |-> key, emb |-> emb])
    IN  IF Len(stored) > CacheMaxSize THEN Tail(stored) ELSE stored

\* the loop that updates the cache with the texts embedded, from text k on
RECURSIVE CacheUpdated(_, _, _, _)
CacheUpdated(cache, texts_to_embed, new_embeddings, k) ==
    IF k > Len(texts_to_embed) THEN cache
    ELSE CacheUpdated(CachePut(cache, CacheKey(texts_to_embed[k]), new_embeddings[k]),
                      texts_to_embed, new_embeddings, k + 1)

\* the elements of a set of positions in ascending order
Ascending(positions) ==
    CHOOSE s \in [1..Cardinality(positions) -> positions] :
        \A i, j \in DOMAIN s : i < j => s[i] < s[j]

\* the positions of the texts that are embedded: all when the cache is not
\* used, else those whose key is not in the cache
TextIndices(cache, texts, use_cache) ==
    Ascending({i \in DOMAIN texts : ~use_cache \/ ~Cached(cache, CacheKey(texts[i]))})

\* the combined result as it would be if the new embeddings were written to
\* the first rows instead of the rows of text_indices
CombinedRowsInOrderEmbedded(cache, texts, text_indices, new_embeddings) ==
    [i \in DOMAIN texts |->
        IF i <= Len(text_indices) THEN new_embeddings[i]
        ELSE IF Cached(cache, CacheKey(texts[i]))
        THEN CacheGet(cache, CacheKey(texts[i]))
        ELSE ZeroRow]

\* the rows of the result where some texts were cached: zeros, then the
\* cached embeddings at their positions, then the new ones at text_indices
CombinedRows(cache, texts, text_indices, new_embeddings) ==
    [i \in DOMAIN texts |->
        IF \E k \in DOMAIN text_indices : text_indices[k] = i
        THEN new_embeddings[CHOOSE k \in DOMAIN text_indices : text_indices[k] = i]
        ELSE CacheGet(cache, CacheKey(texts[i]))]

\* self._embed_sentence_transformers(texts), self._embed_ollama(texts)
BackendEmbed(texts) == [k \in DOMAIN texts |-> Encode(texts[k])]

\* EmbeddingService.embed on a list of texts, the backend answering: the
\* rows returned and the cache left
Embed(cache, texts, use_cache) ==
    LET text_indices == TextIndices(cache, texts, use_cache)
        texts_to_embed == [k \in DOMAIN text_indices |-> texts[text_indices[k]]]
        new_embeddings == BackendEmbed(texts_to_embed)
    IN  IF texts = <<>> THEN [rows |-> <<>>, cache |-> cache, embedded |-> <<>>]
        ELSE IF text_indices = <<>>
        THEN [rows |-> [i \in DOMAIN texts |-> CacheGet(cache, CacheKey(texts[i]))],
              cache |-> cache, embedded |-> <<>>]
        ELSE [rows |-> IF Len(text_indices) < Len(texts)
                       THEN CombinedRows(cache, texts, text_indices, new_embeddings)
                       ELSE new_embeddings,
              cache |-> IF use_cache
                        THEN CacheUpdated(cache, texts_to_embed, new_embeddings, 1)
                        ELSE cache,
              embedded |-> texts_to_embed]

\* EmbeddingService.__init__ and initialize
EmbedderConstruct ==
    /\ ~embedder.made
    /\ embedder' = [made |-> TRUE, cache |-> <<>>]
    /\ ret' = Ret("EmbeddingService", "", 0, <<>>)
    /\ UNCHANGED <<storeVars, diskVars, saved, comparator, fanout, engine, chunker, callers>>

\* EmbeddingService.embed, returning or raising what the backend raises
EmbedCall(texts, use_cache, raises) ==
    LET out == Embed(embedder.cache, texts, use_cache)
        args == [texts |-> texts, use_cache |-> use_cache, cache |-> embedder.cache,
                 embedded |-> out.embedded]
    IN  /\ embedder.made
        /\ IF raises /\ out.embedded # <<>>
           THEN /\ ret' = Ret("embed", "Exception", <<>>, args)
                /\ UNCHANGED embedder
           ELSE /\ ret' = Ret("embed", "", out.rows, args)
                /\ embedder' = [embedder EXCEPT !.cache = out.cache]
        /\ UNCHANGED <<storeVars, diskVars, saved, comparator, fanout, engine, chunker, callers>>

EmbedBatch ==
    \E texts \in TextsUpTo(EmbedTexts, MaxBatch), use_cache \in BOOLEAN, raises \in BOOLEAN :
        EmbedCall(texts, use_cache, raises)

\* EmbeddingService.clear_cache
ClearCache ==
    /\ embedder.made
    /\ embedder' = [embedder EXCEPT !.cache = <<>>]
    /\ ret' = Ret("clear_cache", "", 0, <<>>)
    /\ UNCHANGED <<storeVars, diskVars, saved, comparator, fanout, engine, chunker, callers>>

NextEmbed ==
    \/ EmbedderConstruct
    \/ EmbedBatch
    \/ ClearCache

SpecEmbed == Init /\ [][NextEmbed]_vars

-----------------------------------------------------------------------------
(***************************************************************************)
(* RAGEngine                                                               *)
(*                                                                         *)
(* The engine owns one FAISSVectorStore and one EmbeddingService, made by  *)
(* its initialize: the store variables hold the state of that store and    *)
(* embedder.cache the cache of that service.  The records of the store     *)
(* carry here the content of their chunk and its source, which the engine  *)
(* reads back from the search results.                                     *)
(***************************************************************************)
\* the most vectors the engine's index holds
EngineMaxVectors == 2

\* settings.RAG_TOP_K, RAG_CHUNK_SIZE and RAG_CHUNK_OVERLAP of the engine explored
EngineSettings == [top_k |-> 2, chunk_size |-> 2, chunk_overlap |-> 0]

\* the documents indexed, the file name they come from and the queries
EngineContents == {<<>>, <<" ">>, <<Nul>>, <<"a">>, <<"a", "a", "a">>}
EngineFilenames == {<<"f">>}
EngineQueries == {<<"a">>}
EngineCollections == {"default", "c2"}

\* what goes wrong in a call: nothing, the load of the embedding model or of
\* the store, the embedding backend, or the store's save, at the write of
\* index.faiss or at the dump of metadata.pkl
Faults == {"none", "initialize", "embed", "write_index", "pickle_dump"}

\* the store of the engine as one value
StoreNow == [indexExists |-> indexExists, indexVecs |-> indexVecs, metadata |-> metadata, collections |-> collections, documents |-> documents, stats |-> stats]

\* FAISSVectorStore.__init__
NewStore == [indexExists |-> FALSE, indexVecs |-> <<>>, metadata |-> <<>>, collections |-> NewCollections, documents |-> NewDocuments, stats |-> NewStats]

\* FAISSVectorStore.initialize on a new store, from the files given
StoreInitialized(index_file, metadata_file) ==
    IF index_file.state # "absent" /\ metadata_file.state # "absent"
    THEN IF index_file.state = "corrupt"
         THEN [NewStore EXCEPT !.indexExists = TRUE]
         ELSE IF metadata_file.state = "corrupt"
         THEN [NewStore EXCEPT !.indexExists = TRUE, !.indexVecs = index_file.vecs]
         ELSE [indexExists |-> TRUE, indexVecs |-> index_file.vecs,
               metadata |-> metadata_file.metadata,
               collections |-> metadata_file.collections,
               documents |-> metadata_file.documents,
               stats |-> metadata_file.stats]
    ELSE [NewStore EXCEPT !.indexExists = TRUE]

\* FAISSVectorStore.add of the chunks of one document with their embeddings
StoreAdded(s, embeddings, chunks, source, collection, document_id) ==
    LET n == Len(chunks)
        indices == RangeSeq(Len(s.indexVecs), n)
    IN  [indexExists |-> TRUE,
         indexVecs |-> s.indexVecs \o embeddings,
         metadata |-> s.metadata \o
             [i \in 1..n |-> [idx |-> indices[i], document_id |-> document_id,
                              collection |-> collection, deleted |-> FALSE,
                              content |-> chunks[i].content, source |-> source]],
         collections |->
             [c \in DOMAIN s.collections \cup {collection} |->
                 IF c = collection
                 THEN (IF c \in DOMAIN s.collections THEN s.collections[c] ELSE {})
                          \cup Range(indices)
                 ELSE s.collections[c]],
         documents |->
             [d \in DOMAIN s.documents \cup {document_id} |->
                 IF d = document_id
                 THEN (IF d \in DOMAIN s.documents THEN s.documents[d] ELSE <<>>) \o indices
                 ELSE s.documents[d]],
         stats |-> [s.stats EXCEPT !.total_vectors = Len(s.indexVecs) + n,
                                   !.total_adds = @ + n]]

\* FAISSVectorStore.delete_document: the store left
StoreDeleted(s, document_id) ==
    IF document_id \notin DOMAIN s.documents THEN s
    ELSE [s EXCEPT
            !.metadata = [i \in DOMAIN s.metadata |->
                             IF (i - 1) \in Range(s.documents[document_id])
                             THEN [s.metadata[i] EXCEPT !.deleted = TRUE]
                             ELSE s.metadata[i]],
            !.documents = [d \in DOMAIN s.documents \ {document_id} |-> s.documents[d]]]

\* FAISSVectorStore.delete_document: the number of chunks it returns
DeletedCount(s, document_id) ==
    IF document_id \notin DOMAIN s.documents THEN 0 ELSE Len(s.documents[document_id])

\* FAISSVectorStore.list_documents
StoreListDocuments(s, collection) ==
    IF collection = NoCollection THEN DOMAIN s.documents
    ELSE {d \in DOMAIN s.documents :
            \E i \in DOMAIN s.documents[d] :
                /\ s.documents[d][i] < Len(s.metadata)
                /\ s.metadata[s.documents[d][i] + 1].collection = collection}

\* FAISSVectorStore.get_collection_info
StoreGetCollectionInfo(s, collection) ==
    IF collection \notin DOMAIN s.collections
    THEN [name |-> collection, exists |-> FALSE]
    ELSE [name |-> collection, exists |-> TRUE,
          chunk_count |-> Cardinality(s.collections[collection]),
          document_count |->
              Cardinality({s.metadata[i + 1].document_id :
                              i \in {j \in s.collections[collection] :
                                         /\ j < Len(s.metadata)
                                         /\ s.metadata[j + 1].document_id # NoDoc}})]

\* the loop of clear_collection: delete_document for every listed document
RECURSIVE StoreCleared(_, _)
StoreCleared(s, docs) ==
    IF docs = {} THEN s
    ELSE LET d == CHOOSE d \in docs : TRUE
         IN  StoreCleared(StoreDeleted(s, d), docs \ {d})

\* the files FAISSVectorStore.save leaves for store s: both written, or as
\* far as the stage that raised
IndexFileSaved(s, fault) ==
    IF fault = "write_index" THEN CorruptIndexFile
    ELSE [state |-> "ok", vecs |-> s.indexVecs]

MetaFileSaved(s, fault) ==
    IF fault = "pickle_dump" THEN CorruptMetaFile
    ELSE IF fault \in {"write_index", "open_metadata"} THEN diskMeta
    ELSE [state |-> "ok", metadata |-> s.metadata, collections |-> s.collections,
          documents |-> s.documents, stats |-> s.stats]

\* FAISSVectorStore.save raises RAGError(operation="save")
SaveRaises(fault) == fault \in {"write_index", "open_metadata", "pickle_dump"}

\* the store variables become those of s
SetStore(s) ==
    /\ indexExists' = s.indexExists
    /\ indexVecs' = s.indexVecs
    /\ metadata' = s.metadata
    /\ collections' = s.collections
    /\ documents' = s.documents
    /\ stats' = s.stats

\* RAGEngine._generate_doc_id: a digest of the file name and the content
GenerateDocId(filename, content) == <<filename, content>>

\* _ensure_initialized as it would be if a disabled engine failed with the
\* tag of initialize
EnsureInitializedTaggedInitialize(fault) ==
    IF engine.initialized
    THEN [err |-> "", initialized |-> TRUE, store |-> StoreNow, cache |-> embedder.cache]
    ELSE IF ~engine.enabled \/ fault = "initialize"
    THEN [err |-> "RAGError:initialize", initialized |-> FALSE, store |-> StoreNow,
          cache |-> <<>>]
    ELSE [err |-> "", initialized |-> TRUE,
          store |-> StoreInitialized(diskIndex, diskMeta), cache |-> <<>>]

\* RAGEngine._ensure_initialized, with initialize: the error raised if any,
\* and the store and the embedding cache the engine goes on with
EnsureInitialized(fault) ==
    IF engine.initialized
    THEN [err |-> "", initialized |-> TRUE, store |-> StoreNow, cache |-> embedder.cache]
    ELSE IF ~engine.enabled
    THEN [err |-> "RAGError:query", initialized |-> FALSE, store |-> StoreNow,
          cache |-> <<>>]
    ELSE IF fault = "initialize"
    THEN [err |-> "RAGError:initialize", initialized |-> FALSE, store |-> StoreNow,
          cache |-> <<>>]
    ELSE [err |-> "", initialized |-> TRUE,
          store |-> StoreInitialized(diskIndex, diskMeta), cache |-> <<>>]

\* the engine, its embedder and its store after _ensure_initialized
SetEnsured(pre, cache) ==
    /\ engine' = [engine EXCEPT !.initialized = pre.initialized]
    /\ embedder' = IF pre.initialized THEN [made |-> TRUE, cache |-> cache] ELSE embedder

\* len(f"[Source {i}: {source}]\n{chunk.content}")
ChunkTextLen(i, chunk) ==
    8 + (IF i < 10 THEN 1 ELSE 2) + 2 + chunk.source_len + 2 + chunk.content_len

\* len("\n\n---\n\n")
SeparatorLen == 7

\* the loop of _assemble_context from chunk i on: the number of chunks
\* included and total_length
RECURSIVE AssembleLoop(_, _, _, _)
AssembleLoop(chunks, i, total_length, max_chars) ==
    IF i > Len(chunks) THEN [included |-> i - 1, total_length |-> total_length]
    ELSE IF total_length + ChunkTextLen(i, chunks[i]) > max_chars
    THEN [included |-> i - 1, total_length |-> total_length]
    ELSE AssembleLoop(chunks, i + 1, total_length + ChunkTextLen(i, chunks[i]), max_chars)

\* the length of the parts joined as it would be if the separators had no length
JoinedLenNoSeparators(included, total_length) == total_length

\* len("\n\n---\n\n".join(context_parts))
JoinedLen(included, total_length) ==
    IF included = 0 THEN 0 ELSE total_length + SeparatorLen * (included - 1)

\* RAGEngine._assemble_context: how many chunks of the list the context
\* holds, the length of their texts and the length of the context
AssembleContext(chunks, max_tokens) ==
    LET out == AssembleLoop(chunks, 1, 0, max_tokens * 4)
    IN  [included |-> out.included, total_length |-> out.total_length,
         length |-> JoinedLen(out.included, out.total_length),
         max_chars |-> max_tokens * 4]

\* max_tokens of _assemble_context when retrieve calls it
DefaultMaxTokens == 2000

\* the DocumentChunk objects of retrieve: the search results with the
\* content and the source of their records
RetrievedChunks(results, records) ==
    [i \in DOMAIN results |->
        [id |-> results[i].id, score |-> results[i].score,
         document_id |-> results[i].document_id,
         content_len |-> Len(records[results[i].id + 1].content),
         source_len |-> Len(records[results[i].id + 1].source)]]

\* RAGEngine.__init__
EngineConstruct ==
    /\ ~engine.made
    /\ \E enabled \in BOOLEAN :
        engine' = [made |-> TRUE, enabled |-> enabled, initialized |-> FALSE]
    /\ ret' = Ret("RAGEngine", "", 0, <<>>)
    /\ saved' = NoSaved
    /\ UNCHANGED <<storeVars, diskVars, comparator, fanout, embedder, chunker, callers>>

\* the process ends and a new one starts on the same index_path
EngineRestart ==
    /\ engine.made
    /\ engine' = NoEngine
    /\ embedder' = NoEmbedder
    /\ SetStore(NewStore)
    /\ ret' = Ret("restart", "", 0, <<>>)
    /\ saved' = NoSaved
    /\ UNCHANGED <<diskVars, comparator, fanout, chunker, callers>>

\* a call that ends in _ensure_initialized or leaves the store as pre has it
EngineFails(op, err, pre, cache, args) ==
    /\ ret' = Ret(op, err, <<>>, args)
    /\ SetEnsured(pre, cache)
    /\ SetStore(pre.store)
    /\ UNCHANGED diskVars

\* RAGEngine.retrieve
EngineRetrieveCall(query, top_k, collection, threshold, fault) ==
    LET pre == EnsureInitialized(fault)
        args == [query |-> query, top_k |-> top_k, collection |-> collection,
                 threshold |-> threshold]
        k == IF top_k # 0 THEN top_k ELSE EngineSettings.top_k
        emb == Embed(pre.cache, <<query>>, TRUE)
        s == pre.store
        search_k == Min(IF collection # NoCollection THEN k * 3 ELSE k, Len(s.indexVecs))
    IN  /\ engine.made
        /\ saved' = NoSaved
        /\ UNCHANGED <<comparator, fanout, chunker, callers>>
        /\ IF pre.err # ""
           THEN EngineFails("RAGEngine.retrieve", pre.err, pre, pre.cache, args)
           ELSE IF fault = "embed" /\ emb.embedded # <<>>
           THEN EngineFails("RAGEngine.retrieve", "RAGError:retrieve", pre, pre.cache, args)
           ELSE IF Len(s.indexVecs) = 0
           THEN /\ ret' = Ret("RAGEngine.retrieve", "",
                              [chunks |-> <<>>, context |-> AssembleContext(<<>>, DefaultMaxTokens)],
                              args)
                /\ SetEnsured(pre, emb.cache)
                /\ SetStore(s)
                /\ UNCHANGED diskVars
           ELSE /\ SetEnsured(pre, emb.cache)
                /\ UNCHANGED diskVars
                /\ \E order \in NearestPositions(s.indexVecs, emb.rows[1], search_k) :
                    LET out == SearchResults(s.indexVecs, s.metadata, order, 1, <<>>,
                                             emb.rows[1], k, collection, threshold)
                        chunks == RetrievedChunks(out.results, s.metadata)
                    IN  IF out.err # ""
                        THEN /\ ret' = Ret("RAGEngine.retrieve", "RAGError:retrieve", <<>>, args)
                             /\ SetStore(s)
                        ELSE /\ ret' = Ret("RAGEngine.retrieve", "",
                                           [chunks |-> chunks,
                                            context |-> AssembleContext(chunks, DefaultMaxTokens)],
                                           args)
                             /\ SetStore([s EXCEPT !.stats.total_searches = @ + 1])

EngineRetrieve ==
    \E query \in EngineQueries, top_k \in {0, 1}, collection \in {NoCollection},
       threshold \in {<<0, 1>>}, fault \in {"none", "initialize", "embed"} :
        /\ stats.total_searches < MaxSearches
        /\ EngineRetrieveCall(query, top_k, collection, threshold, fault)

\* RAGEngine.index_document
EngineIndexDocumentCall(content, filename, collection, fault) ==
    LET pre == EnsureInitialized(fault)
        args == [content |-> content, filename |-> filename, collection |-> collection]
        doc_id == GenerateDocId(filename, content)
        used == IndexDocumentChunker(NoArg, NoArg, EngineSettings)
        chunks == Chunk(content, used.chunk_size, used.chunk_overlap)
        chunk_texts == [i \in DOMAIN chunks |-> chunks[i].content]
        emb == Embed(pre.cache, chunk_texts, TRUE)
        added == StoreAdded(pre.store, emb.rows, chunks, filename, collection, doc_id)
    IN  /\ engine.made
        /\ saved' = NoSaved
        /\ UNCHANGED <<comparator, fanout, chunker, callers>>
        /\ IF pre.err # ""
           THEN EngineFails("RAGEngine.index_document", pre.err, pre, pre.cache, args)
           ELSE IF chunks = <<>>
           THEN EngineFails("RAGEngine.index_document", "RAGError:index", pre, pre.cache, args)
           ELSE IF fault = "embed" /\ emb.embedded # <<>>
           THEN EngineFails("RAGEngine.index_document", "RAGError:index", pre, pre.cache, args)
           ELSE /\ Len(pre.store.indexVecs) + Len(chunks) <= EngineMaxVectors
                /\ SetEnsured(pre, emb.cache)
                /\ SetStore(added)
                /\ diskIndex' = IndexFileSaved(added, fault)
                /\ diskMeta' = MetaFileSaved(added, fault)
                /\ ret' = IF SaveRaises(fault)
                          THEN Ret("RAGEngine.index_document", "RAGError:save", <<>>, args)
                          ELSE Ret("RAGEngine.index_document", "",
                                   [id |-> doc_id, chunks |-> Len(chunks)], args)

EngineIndexDocument ==
    \E content \in EngineContents, filename \in EngineFilenames,
       collection \in {"default"}, fault \in Faults :
        EngineIndexDocumentCall(content, filename, collection, fault)

\* delete_document and clear_collection from the store s they leave on: the
\* save when something was deleted, and the value returned
EngineSaveDeleted(op, pre, s, count, val, fault, args) ==
    /\ SetEnsured(pre, pre.cache)
    /\ SetStore(s)
    /\ IF count > 0
       THEN /\ diskIndex' = IndexFileSaved(s, fault)
            /\ diskMeta' = MetaFileSaved(s, fault)
            /\ ret' = IF SaveRaises(fault) THEN Ret(op, "RAGError:save", <<>>, args)
                      ELSE Ret(op, "", val, args)
       ELSE /\ UNCHANGED diskVars
            /\ ret' = Ret(op, "", val, args)

\* RAGEngine.delete_document
EngineDeleteDocumentCall(document_id, fault) ==
    LET pre == EnsureInitialized(fault)
        args == [document_id |-> document_id]
        count == DeletedCount(pre.store, document_id)
    IN  /\ engine.made
        /\ saved' = NoSaved
        /\ UNCHANGED <<comparator, fanout, chunker, callers>>
        /\ IF pre.err # ""
           THEN EngineFails("RAGEngine.delete_document", pre.err, pre, pre.cache, args)
           ELSE EngineSaveDeleted("RAGEngine.delete_document", pre,
                                  StoreDeleted(pre.store, document_id),
                                  count, count > 0, fault, args)

EngineDeleteDocument ==
    \E content \in {<<"a">>, <<"a", "a", "a">>}, filename \in EngineFilenames,
       fault \in Faults \ {"embed"} :
        EngineDeleteDocumentCall(GenerateDocId(filename, content), fault)

\* RAGEngine.clear_collection
EngineClearCollectionCall(collection, fault) ==
    LET pre == EnsureInitialized(fault)
        args == [collection |-> collection]
        docs == StoreListDocuments(pre.store, collection)
        count == Cardinality({d \in docs : DeletedCount(pre.store, d) > 0})
    IN  /\ engine.made
        /\ saved' = NoSaved
        /\ UNCHANGED <<comparator, fanout, chunker, callers>>
        /\ IF pre.err # ""
           THEN EngineFails("RAGEngine.clear_collection", pre.err, pre, pre.cache, args)
           ELSE EngineSaveDeleted("RAGEngine.clear_collection", pre,
                                  StoreCleared(pre.store, docs), count, count, fault, args)

EngineClearCollection ==
    \E collection \in {"default", "c2"}, fault \in Faults \ {"embed"} :
        EngineClearCollectionCall(collection, fault)

\* RAGEngine.list_documents, list_collections and get_collection_info
EngineInspectCall(method, collection, fault) ==
    LET pre == EnsureInitialized(fault)
        args == [collection |-> collection]
        s == pre.store
    IN  /\ engine.made
        /\ saved' = NoSaved
        /\ UNCHANGED <<comparator, fanout, chunker, callers>>
        /\ IF pre.err # ""
           THEN EngineFails(method, pre.err, pre, pre.cache, args)
           ELSE /\ SetEnsured(pre, pre.cache)
                /\ SetStore(s)
                /\ UNCHANGED diskVars
                /\ ret' = Ret(method, "",
                              IF method = "RAGEngine.list_documents"
                              THEN StoreListDocuments(s, collection)
                              ELSE IF method = "RAGEngine.list_collections"
                              THEN DOMAIN s.collections
                              ELSE StoreGetCollectionInfo(s, collection),
                              args)

EngineInspect ==
    \E method \in {"RAGEngine.list_documents", "RAGEngine.list_collections",
                   "RAGEngine.get_collection_info"},
       collection \in {"default"}, fault \in {"none", "initialize"} :
        EngineInspectCall(method, collection, fault)

\* the chunks _assemble_context is called with: by the lengths of their
\* content and of their source
ContextChunks == [content_len : {980, 3980, 4000}, source_len : {0, 7}]
MaxContextChunks == 3

\* RAGEngine._assemble_context, called on a new engine
EngineAssembleContext ==
    /\ engine.made
    /\ ret.op = "RAGEngine"
    /\ diskIndex.state = "absent" /\ diskMeta.state = "absent"
    /\ \E n \in 0..MaxContextChunks, max_tokens \in {500, DefaultMaxTokens} :
        \E chunks \in SeqsOfLen(ContextChunks, n) :
            ret' = Ret("RAGEngine._assemble_context", "",
                       [chunks |-> chunks, context |-> AssembleContext(chunks, max_tokens)],
                       [max_tokens |-> max_tokens])
    /\ saved' = NoSaved
    /\ UNCHANGED <<storeVars, diskVars, appVars>>

NextEngine ==
    \/ EngineConstruct
    \/ EngineRestart
    \/ EngineRetrieve
    \/ EngineIndexDocument
    \/ EngineDeleteDocument
    \/ EngineClearCollection
    \/ EngineInspect
    \/ EngineAssembleContext

SpecEngine == Init /\ [][NextEngine]_vars

\* the engine over two collections, every call succeeding: documents are
\* indexed into either, collections are listed, inspected and cleared
EngineIndexInto ==
    \E content \in {<<"a">>, <<"a", "a", "a">>}, filename \in EngineFilenames,
       collection \in EngineCollections :
        EngineIndexDocumentCall(content, filename, collection, "none")

EngineDeleteIndexed ==
    \E content \in {<<"a">>, <<"a", "a", "a">>}, filename \in EngineFilenames :
        EngineDeleteDocumentCall(GenerateDocId(filename, content), "none")

EngineClearEither ==
    \E collection \in EngineCollections : EngineClearCollectionCall(collection, "none")

EngineInspectEither ==
    \E method \in {"RAGEngine.list_documents", "RAGEngine.get_collection_info"},
       collection \in EngineCollections :
        EngineInspectCall(method, collection, "none")

NextCollections ==
    \/ EngineConstruct
    \/ EngineRestart
    \/ EngineRetrieve
    \/ EngineIndexInto
    \/ EngineDeleteIndexed
    \/ EngineClearEither
    \/ EngineInspectEither

SpecCollections == Init /\ [][NextCollections]_vars

-----------------------------------------------------------------------------
(***************************************************************************)
(* The engine under concurrent callers.  The callers are coroutines of one *)
(* event loop: a caller runs alone until it awaits loop.run_in_executor    *)
(* (the load of the model, the encoding of texts), and only there another  *)
(* caller runs.  An await of a coroutine that itself awaits nothing of the *)
(* loop (FAISSVectorStore.initialize, add, search, save) does not suspend. *)
(* The texts of the callers are not in the embedding cache.                *)
(***************************************************************************)
\* the callers, and the engine operations they start
MaxCallers == 3
Callers == 1..MaxCallers
CallerOps == {"retrieve", "index_document"}

\* None, for a reference to an object
NoObject == 0

\* RAGEngine(): enabled, not initialized, no embedder and no vector store
CallersEngine(c) == c.made /\ ~c.initialized

\* the engine with record f of the object at position i of its list objs
\* replaced
WithEmbedder(c, i, f) == [c EXCEPT !.embedders[i] = f]
WithStore(c, i, f) == [c EXCEPT !.stores[i] = f]

\* EmbeddingService._init_sentence_transformers after its await: embedder i
\* holds a model
ModelSet(c, i) ==
    WithEmbedder(c, i, [model |-> TRUE, loads |-> c.embedders[i].loads + 1])

\* a call on self._vector_store: the store the engine refers to is in use
StoreUsed(c, vectors) ==
    WithStore(c, c.vector_store,
              [used |-> TRUE, vectors |-> c.stores[c.vector_store].vectors + vectors])

\* EmbeddingService.embed of self._embedder as far as its first suspension:
\* if self._model is None it awaits initialize, and else the encoding
EmbedCalled(c, t) ==
    [c EXCEPT !.target[t] = c.embedder,
              !.pc[t] = IF c.embedders[c.embedder].model THEN "encode" ELSE "embed_init"]

\* the operation of caller t from the return of _ensure_initialized to its
\* first suspension: index_document lists the documents of the store, then
\* both embed
OperationStarted(c, t) ==
    IF c.op[t] = "index_document" THEN EmbedCalled(StoreUsed(c, 0), t)
    ELSE EmbedCalled(c, t)

\* RAGEngine.initialize as far as its first suspension: a new
\* EmbeddingService becomes self._embedder and its initialize awaits the
\* load of the model
InitializeSuspended(c, t) ==
    [c EXCEPT !.embedders = Append(c.embedders, [model |-> FALSE, loads |-> 0]),
              !.embedder = Len(c.embedders) + 1,
              !.target[t] = Len(c.embedders) + 1,
              !.pc[t] = "init_model"]

\* RAGEngine.initialize after the model of caller t's embedder is loaded: a
\* new FAISSVectorStore becomes self._vector_store and is initialized, and
\* self._initialized is set
InitializeResumed(c, t) ==
    LET loaded == ModelSet(c, c.target[t])
    IN  [loaded EXCEPT !.stores = Append(c.stores, [used |-> FALSE, vectors |-> 0]),
                       !.vector_store = Len(c.stores) + 1,
                       !.initialized = TRUE]

\* RAGEngine(), shared by the callers
CallersConstruct ==
    /\ ~callers.made
    /\ callers' = [made |-> TRUE, initialized |-> FALSE,
                   embedder |-> NoObject, vector_store |-> NoObject,
                   embedders |-> <<>>, stores |-> <<>>,
                   pc |-> [t \in Callers |-> "idle"],
                   op |-> [t \in Callers |-> "none"],
                   target |-> [t \in Callers |-> NoObject]]
    /\ ret' = Ret("RAGEngine", "", 0, <<>>)
    /\ UNCHANGED <<storeVars, diskVars, saved, comparator, fanout, engine, embedder,
                   chunker>>

\* caller t starts retrieve or index_document: _ensure_initialized, and
\* initialize if self._initialized is not set
CallerStarts(t, op) ==
    /\ callers.made
    /\ callers.pc[t] = "idle"
    /\ LET called == [callers EXCEPT !.op[t] = op]
       IN  callers' = IF callers.initialized THEN OperationStarted(called, t)
                      ELSE InitializeSuspended(called, t)
    /\ ret' = Ret("start", "", 0, [caller |-> t, op |-> op])
    /\ UNCHANGED <<storeVars, diskVars, saved, comparator, fanout, engine, embedder,
                   chunker>>

\* the load of the model started by caller t's initialize is done: the rest
\* of initialize, and the operation as far as its embed
CallerInitialized(t) ==
    /\ callers.made
    /\ callers.pc[t] = "init_model"
    /\ callers' = OperationStarted(InitializeResumed(callers, t), t)
    /\ ret' = Ret("initialize", "", 0, [caller |-> t, op |-> callers.op[t]])
    /\ UNCHANGED <<storeVars, diskVars, saved, comparator, fanout, engine, embedder,
                   chunker>>

\* the load of the model started by caller t's embed is done: embed goes on
\* to the encoding
CallerEmbedInitialized(t) ==
    /\ callers.made
    /\ callers.pc[t] = "embed_init"
    /\ callers' = [ModelSet(callers, callers.target[t]) EXCEPT !.pc[t] = "encode"]
    /\ ret' = Ret("embed:initialize", "", 0, [caller |-> t, op |-> callers.op[t]])
    /\ UNCHANGED <<storeVars, diskVars, saved, comparator, fanout, engine, embedder,
                   chunker>>

\* the encoding of caller t's texts is done: index_document adds the chunk
\* to self._vector_store and saves it, retrieve searches it
CallerEmbedded(t) ==
    /\ callers.made
    /\ callers.pc[t] = "encode"
    /\ LET vectors == IF callers.op[t] = "index_document" THEN 1 ELSE 0
       IN  callers' = [StoreUsed(callers, vectors) EXCEPT !.pc[t] = "done"]
    /\ ret' = Ret(callers.op[t], "", 0, [caller |-> t, op |-> callers.op[t]])
    /\ UNCHANGED <<storeVars, diskVars, saved, comparator, fanout, engine, embedder,
                   chunker>>

NextCallers ==
    \/ CallersConstruct
    \/ \E t \in Callers, op \in CallerOps : CallerStarts(t, op)
    \/ \E t \in Callers : CallerInitialized(t)
    \/ \E t \in Callers : CallerEmbedInitialized(t)
    \/ \E t \in Callers : CallerEmbedded(t)

SpecCallers == Init /\ [][NextCallers]_vars

-----------------------------------------------------------------------------
(***************************************************************************)
(* The vector index: search.                                               *)
(***************************************************************************)
SearchReturned == ret.op = "search" /\ ret.err = ""

\* the stored record a search result names
ResultRecord(r) == metadata[r.id + 1]

\* the distance of a search result's vector to the query of the search
ResultDistance(r) == Distance(ret.args.query, indexVecs[r.id + 1])

\* C1: after delete_document(d) has returned, a search returns no record of d,
\* that is no record flagged deleted.
C1_SearchExcludesDeleted ==
    SearchReturned =>
        \A i \in DOMAIN ret.val : ~ResultRecord(ret.val[i]).deleted

\* C2: a search for a stored vector that no other record shares, with no
\* collection filter, returns that record first, and no returned record has a
\* higher score.
C2_ExactMatchFirst ==
    (SearchReturned /\ ret.args.collection = NoCollection) =>
        \A p \in 0..(Len(indexVecs) - 1) :
            (/\ indexVecs[p + 1] = ret.args.query
             /\ \A o \in 0..(Len(indexVecs) - 1) : o # p => indexVecs[o + 1] # indexVecs[p + 1])
            => /\ Len(ret.val) >= 1
               /\ ret.val[1].id = p
               /\ \A i \in DOMAIN ret.val : ret.val[1].score >= ret.val[i].score

C2_Witness ==
    /\ SearchReturned
    /\ ret.args.collection = NoCollection
    /\ Len(ret.val) = 2
    /\ indexVecs[ret.val[1].id + 1] = ret.args.query
    /\ indexVecs[ret.val[2].id + 1] # ret.args.query
    /\ ret.val[1].id > ret.val[2].id

\* the parts of C3 that hold of the reported scores: at most top_k results, in
\* order of non-increasing score
SearchBoundedAndOrdered ==
    /\ Len(ret.val) <= ret.args.top_k
    /\ \A i, j \in DOMAIN ret.val : i < j => ret.val[i].score >= ret.val[j].score

\* C3 as stated: every search returns at most top_k results, in order of
\* non-increasing score, each with a reported score (in units of 1/10000) of at
\* least score_threshold.
C3_ReportedScoreAtLeastThreshold ==
    SearchReturned =>
        /\ SearchBoundedAndOrdered
        /\ \A i \in DOMAIN ret.val :
               ret.val[i].score * ret.args.threshold[2] >= 10000 * ret.args.threshold[1]

\* C3 amended: every search returns at most top_k results, in order of
\* non-increasing score, each with a similarity 1/(1 + distance), before it is
\* rounded for the result, of at least score_threshold.
C3_SimilarityAtLeastThreshold ==
    SearchReturned =>
        /\ SearchBoundedAndOrdered
        /\ \A i \in DOMAIN ret.val :
               ret.args.threshold[2] >=
                   ret.args.threshold[1] * (1 + ResultDistance(ret.val[i]))

C3_Witness ==
    /\ SearchReturned
    /\ ret.args.top_k = 1
    /\ ret.args.threshold = <<2, 5>>
    /\ Len(ret.val) = 1
    /\ \E p \in 0..(Len(indexVecs) - 1) :
           Distance(ret.args.query, indexVecs[p + 1]) = 2

-----------------------------------------------------------------------------
(***************************************************************************)
(* The vector index: add, and the positions it assigns.                    *)
(***************************************************************************)
\* the step is a call of add with mismatched arguments
MismatchedAdd ==
    /\ ret'.op = "add"
    /\ \/ ret'.args.n # ret'.args.nchunks
       \/ ret'.args.dim # StoreDimension

\* C5: add with len(embeddings) # len(chunks), or with embeddings of another
\* dimension than the index's, raises an error and leaves total_vectors, the
\* records, the collection map, the document map and the counters as they were.
C5_MismatchedAddChangesNothing ==
    [][MismatchedAdd => (ret'.err # "" /\ StoreView' = StoreView)]_vars

C5_Witness ==
    /\ ret.op = "add"
    /\ ret.err = "ValueError:dimension"
    /\ ret.args.n = ret.args.nchunks
    /\ total_vectors > 0
    /\ DOMAIN documents # {}

\* C6: over add, search, delete_document and save, total_vectors never
\* decreases, and each add of n records returns the n consecutive positions
\* from the previous total_vectors on, none of which a record holds already.
C6_PositionsAppendOnly ==
    [][ret'.op \in {"add", "search", "delete_document", "save"} =>
           /\ total_vectors' >= total_vectors
           /\ (ret'.op = "add" /\ ret'.err = "") =>
                  /\ ret'.val = RangeSeq(total_vectors, ret'.args.n)
                  /\ total_vectors' = total_vectors + ret'.args.n
                  /\ \A i \in DOMAIN ret'.val, j \in DOMAIN metadata :
                         metadata[j].idx # ret'.val[i]
                  /\ \A i \in DOMAIN ret'.val :
                         metadata'[ret'.val[i] + 1].idx = ret'.val[i]]_vars

C6_Witness ==
    /\ ret.op = "add"
    /\ ret.err = ""
    /\ ret.val = <<1>>
    /\ diskIndex.state = "ok"
    /\ metadata[1].deleted

-----------------------------------------------------------------------------
(***************************************************************************)
(* The vector index over its durable store.                                *)
(***************************************************************************)
\* initialize has just run on a newly constructed store
InitializedNewStore == ret.op = "initialize" /\ ret.args.fresh

\* C7: initialize on a new store yields an empty index with no records when
\* the durable store is missing, incomplete or corrupt.
C7_FreshIndexOnBadStore ==
    (InitializedNewStore /\ (diskIndex.state # "ok" \/ diskMeta.state # "ok")) =>
        (total_vectors = 0 /\ metadata = <<>>)

\* C8 as stated: initialize on a new store right after a save that returned
\* restores total_vectors, the records, the two maps and the counters of the
\* saved store.
C8_SaveThenInitializeRestores ==
    (InitializedNewStore /\ saved.valid) => StoreView = saved.view

\* C8 amended: the same, for a save by a store that holds an index (one that
\* was initialized or added to): save on a store without an index writes nothing.
C8_SaveWithIndexThenInitializeRestores ==
    (InitializedNewStore /\ saved.valid /\ saved.wrote) => StoreView = saved.view

C8_Witness ==
    /\ InitializedNewStore
    /\ saved.valid
    /\ saved.wrote
    /\ total_vectors = 1
    /\ metadata[1].deleted
    /\ stats.total_searches = 1

-----------------------------------------------------------------------------
(***************************************************************************)
(* The evaluation strategies.                                              *)
(***************************************************************************)
\* a strategy has returned its list of scores
StrategyReturned ==
    /\ ret.op \in {"heuristic", "embedding_similarity", "llm_judge", "ensemble"}
    /\ ret.err = ""

ScoreFields == {"relevance", "clarity", "hallucination_risk", "final_score"}

Unparsed(answer) ==
    \/ answer.reply = "raises"
    \/ answer.format = "prose"
    \/ answer.type # "object"
    \/ DOMAIN answer.fields = {}
    \/ answer.format = "embedded" /\ DOMAIN answer.fields \cap JudgeKeys = {}

\* a score of the judge's answer is no number
NonNumeric(answer) ==
    \E k \in DOMAIN answer.fields \cap JudgeKeys : answer.fields[k].type # "number"

\* a score of the judge's answer is neither a number nor a boolean
NeitherNumberNorBoolean(answer) ==
    \E k \in DOMAIN answer.fields \cap JudgeKeys :
        answer.fields[k].type \notin {"number", "boolean"}

\* a score of the judge's answer lies outside [0, 1]
OutOfRange(answer) ==
    \E k \in DOMAIN answer.fields \cap JudgeKeys :
        answer.fields[k].value < 0 \/ answer.fields[k].value > JudgeUnit

\* a score of the judge's answer, as rounded to four decimals, lies outside
\* [0, 1]
OutOfRangeRounded(answer) ==
    \E k \in DOMAIN answer.fields \cap JudgeKeys :
        \/ RoundHalfEven(answer.fields[k].value, JudgeUnit \div ScoreUnit) < 0
        \/ RoundHalfEven(answer.fields[k].value, JudgeUnit \div ScoreUnit) > ScoreUnit

\* the judging of a response fails
JudgingFails(answer) ==
    Unparsed(answer) \/ NonNumeric(answer) \/ OutOfRange(answer)

\* the same, true and false taken as the scores 1 and 0 and the range taken of
\* the rounded scores
JudgingFailsRounded(answer) ==
    Unparsed(answer) \/ NeitherNumberNorBoolean(answer) \/ OutOfRangeRounded(answer)

\* the score of the judge's answer: a key that is missing counts as 0.5
JudgedValue(answer, k) ==
    IF k \in DOMAIN answer.fields
    THEN RoundHalfEven(answer.fields[k].value, JudgeUnit \div ScoreUnit)
    ELSE ScoreUnit \div 2

\* the judge returned one score per response, in the order of the responses:
\* the neutral fallback score (0.5, 0.5, 0.5, final 0.5, fallback) where the
\* judging fails (of the rounded scores, or of the scores as they are), and
\* the judge's scores elsewhere
OneScorePerResponse(rounded) ==
    ret.op = "llm_judge" =>
        /\ ret.err = ""
        /\ Len(ret.val) = Len(ret.args.responses)
        /\ \A i \in DOMAIN ret.val :
            LET score == ret.val[i]
                response == ret.args.responses[i]
            IN  /\ score.model_id = response.model_id
                /\ IF (IF rounded THEN JudgingFailsRounded(response.judge)
                                 ELSE JudgingFails(response.judge))
                   THEN /\ score.fallback
                        /\ \A field \in ScoreFields : 2 * score[field] = ScoreUnit
                   ELSE /\ ~score.fallback
                        /\ \A k \in JudgeKeys : score[k] = JudgedValue(response.judge, k)

\* C10: the LLM judge returns one score per response, in the order of the
\* responses, whatever the judge does for each of them (it scores, raises,
\* answers what cannot be parsed, answers values out of range or that are no
\* numbers); a response whose judging fails gets the neutral fallback score
\* (0.5, 0.5, 0.5, final 0.5, fallback) and every other response the scores
\* the judge gave it.
C10_OneScorePerResponse == OneScorePerResponse(FALSE)

\* C10 amended: the same, a value counting as out of range when it lies outside
\* [0, 1] as rounded to four decimals, and as non-numeric when it is neither a
\* number nor a boolean: a value outside [0, 1] by less than 0.00005 is rounded
\* into the range and scored, and true and false are scored as 1 and 0.
C10_OneScorePerResponseRounded == OneScorePerResponse(TRUE)

\* a response the judge scored, with two values the rounding brought into the
\* range, before a response whose scores are out of range
C10_Witness ==
    /\ ret.op = "llm_judge"
    /\ Len(ret.val) = 2
    /\ OutOfRange(ret.args.responses[1].judge)
    /\ ~JudgingFailsRounded(ret.args.responses[1].judge)
    /\ ret.val[1].relevance = ScoreUnit
    /\ ~ret.val[1].fallback
    /\ ~Unparsed(ret.args.responses[2].judge)
    /\ ~NonNumeric(ret.args.responses[2].judge)
    /\ OutOfRangeRounded(ret.args.responses[2].judge)
    /\ ret.val[2].fallback

-----------------------------------------------------------------------------
(***************************************************************************)
(* The ensemble.                                                           *)
(***************************************************************************)
Strategies == {"heuristic", "embedding", "llm_judge"}

Components == {"relevance", "clarity", "hallucination_risk"}

\* the ensemble has returned its scores
EnsembleReturned == ret.op = "ensemble" /\ ret.err = ""

\* the strategies that produced a score for the responses of the call
Present == IF ret.args.use_llm_judge THEN Strategies ELSE Strategies \ {"llm_judge"}

\* the weight the ensemble of the call holds for a strategy
WeightOf(s) == Get(EnsembleWeights(ret.args.use_llm_judge, ret.args.weights), s, Zero)

\* the strategies that are present with a weight that is not zero
Contributing == {s \in Present : WeightOf(s) # Zero}

\* the score a strategy gave response i of the call
StrategyScore(s, i) ==
    CASE s = "heuristic" ->
            HeuristicScores(ret.args.prompt_words, ret.args.responses, NoWeights)[i]
      [] s = "embedding" ->
            EmbeddingScores(ret.args.prompt_embedding, ret.args.responses,
                            ret.args.context_embedding)[i]
      [] s = "llm_judge" -> JudgeScores(ret.args.responses)[i]

\* the value a strategy gave a component of response i
StrategyValue(s, i, field) == Frac(StrategyScore(s, i)[field], ScoreUnit)

\* the sum of the weights of the present strategies
PresentWeight ==
    LET w(s) == IF s \in Present THEN WeightOf(s) ELSE Zero
    IN  QAdd(QAdd(w("heuristic"), w("embedding")), w("llm_judge"))

\* the sum of weight * value over the present strategies
PresentWeightedSum(i, field) ==
    LET t(s) == IF s \in Present THEN QMul(WeightOf(s), StrategyValue(s, i, field))
                ELSE Zero
    IN  QAdd(QAdd(t("heuristic"), t("embedding")), t("llm_judge"))

\* C11: for each response and each component (relevance, clarity,
\* hallucination_risk) the value of the ensemble is the weighted average over
\* the strategies that produced a score for the response, the sum of their
\* weights being the denominator, so that a strategy that is missing adds to
\* neither sum; with a single contributing strategy it is that strategy's
\* value, and with none it is 0.5.  The value is the one reported, rounded to
\* four decimals.
C11_WeightedAverageOverPresent ==
    EnsembleReturned =>
        \A i \in DOMAIN ret.val, field \in Components :
            /\ PresentWeight # Zero =>
                   ret.val[i][field] =
                       Round(QDiv(PresentWeightedSum(i, field), PresentWeight), 4)
            /\ \A s \in Contributing :
                   Contributing = {s} =>
                       ret.val[i][field] = StrategyScore(s, i)[field]
            /\ Contributing = {} => 2 * ret.val[i][field] = ScoreUnit

\* the judge is off and the caller gave a weight for it: the values are the
\* averages over the heuristic and the embedding strategy, which differ here
C11_Witness ==
    /\ EnsembleReturned
    /\ ~ret.args.use_llm_judge
    /\ DOMAIN ret.args.weights = Strategies
    /\ Len(ret.val) = 2
    /\ StrategyScore("heuristic", 2).relevance # StrategyScore("embedding", 2).relevance
    /\ StrategyScore("llm_judge", 2).relevance # ret.val[2].relevance
    /\ 2 * ret.val[2].relevance # ScoreUnit

\* only the judge has a weight and it is on: the values are the judge's
C11_WitnessSingle ==
    /\ EnsembleReturned
    /\ Contributing = {"llm_judge"}
    /\ Len(ret.val) = 2
    /\ ret.val[2].relevance = 0
    /\ ret.val[2].clarity = ScoreUnit

-----------------------------------------------------------------------------
(***************************************************************************)
(* Ranking and winner.                                                     *)
(***************************************************************************)
\* the position in scores of the score of a model
PositionOf(scores, model_id) ==
    CHOOSE i \in DOMAIN scores : scores[i].model_id = model_id

\* ranking holds the model ids of scores, each once, by final_score from the
\* highest down, equal final scores in the order of scores
IsRankingOf(ranking, scores) ==
    /\ Len(ranking) = Len(scores)
    /\ {ranking[k] : k \in DOMAIN ranking} = {scores[i].model_id : i \in DOMAIN scores}
    /\ \A k, l \in DOMAIN ranking :
        k < l =>
            LET i == PositionOf(scores, ranking[k])
                j == PositionOf(scores, ranking[l])
            IN  \/ scores[i].final_score > scores[j].final_score
                \/ scores[i].final_score = scores[j].final_score /\ i < j

\* the route has answered with scores
RouteAnswered == ret.op = "evaluate_responses" /\ ret.err = ""

\* C12: the ranking is a permutation of the scored model ids, ordered by
\* final_score from the highest down, and two responses of equal final_score
\* are in it in the order they were given: for Comparator.get_ranking and for
\* the ranking of the route.
C12_RankingStableDescending ==
    /\ ret.op = "get_ranking" => IsRankingOf(ret.val, ret.args.scores)
    /\ RouteAnswered => IsRankingOf(ret.val.ranking, ret.val.scores)

\* three scores, the first and the last equal and below the second
C12_Witness ==
    /\ ret.op = "get_ranking"
    /\ Len(ret.args.scores) = 3
    /\ ret.args.scores[1].final_score = ret.args.scores[3].final_score
    /\ ret.args.scores[2].final_score > ret.args.scores[1].final_score
    /\ ret.val = <<ModelIds[2], ModelIds[1], ModelIds[3]>>

C14_HumanVoteProducesNoScores ==
    (ret.op = "evaluate" /\ ret.args.eval_mode = "human_vote") =>
        ~(ret.err = "" /\ Len(ret.val) > 0)

-----------------------------------------------------------------------------
(***************************************************************************)
(* The fan-out of a prompt.                                                *)
(***************************************************************************)
\* the tasks whose call of generate returned
Succeeded == {i \in DOMAIN fanout.results : fanout.results[i].state = "returned"}

\* submit_prompt has ended
PromptEnded == fanout.made /\ fanout.gathered

\* C15: when a prompt is fanned out to several models, the failure of any of
\* the generate calls neither aborts nor alters the others: the result holds
\* exactly the responses of the calls that succeeded, in the order of the
\* requested model ids, whatever the order the calls ended in; and the one
\* aggregate failure is raised if and only if every call failed.
C15_FailuresIsolated ==
    PromptEnded =>
        /\ (ret.err = "HTTPException 500") <=> (Succeeded = {})
        /\ ret.err \in {"", "HTTPException 500"}
        /\ ret.err = "" =>
            LET responses == ret.val.responses
            IN  /\ {responses[k].task : k \in DOMAIN responses} = Succeeded
                /\ \A k \in DOMAIN responses :
                       responses[k].model_id = fanout.model_ids[responses[k].task]
                /\ \A k, l \in DOMAIN responses :
                       k < l => responses[k].task < responses[l].task

\* three calls: the last ended first and returned, the second raised, the first
\* ended last
C15_Witness ==
    /\ PromptEnded
    /\ fanout.ended = <<3, 2, 1>>
    /\ fanout.results[2] = NoResponse
    /\ Len(ret.val.responses) = 2
    /\ ret.val.responses[1].task = 1

-----------------------------------------------------------------------------
(***************************************************************************)
(* The chunker: recursive chunking.                                        *)
(***************************************************************************)
ChunkedRecursively == ret.op = "_chunk_recursive"

\* the most characters of the i-th returned chunk when overlap is injected
\* once: chunk_size, and for a chunk after the first chunk_overlap more and
\* the joining space
SizeWithOverlap(i) ==
    ret.args.chunk_size
        + (IF i > 1 /\ ret.args.chunk_overlap > 0 THEN ret.args.chunk_overlap + 1 ELSE 0)

\* C20: recursive chunking returns, and no returned chunk is longer than
\* chunk_size once the overlap injected from the previous chunk (at most
\* chunk_overlap characters and one joining space, once per chunk after the
\* first) is left out.
C20_ChunksWithinSize ==
    ChunkedRecursively =>
        \A i \in DOMAIN ret.val : Len(ret.val[i]) <= SizeWithOverlap(i)

-----------------------------------------------------------------------------
(***************************************************************************)
(* The embedder: embed.                                                    *)
(***************************************************************************)
Embedded == ret.op = "embed" /\ ret.err = ""

\* the text at position i of the batch was in the cache when embed was called
CacheHit(i) == Cached(ret.args.cache, CacheKey(ret.args.texts[i]))

\* C19: embed on a batch of N texts returns exactly N vectors and row i is
\* the embedding of texts[i], whatever the cache holds and however the batch
\* splits into cache hits and misses, duplicate texts and evictions included.
C19_RowsMatchTexts ==
    Embedded =>
        /\ Len(ret.val) = Len(ret.args.texts)
        /\ \A i \in DOMAIN ret.args.texts : ret.val[i] = Encode(ret.args.texts[i])

\* a batch with a hit before a miss and a text given twice, embedded through
\* the cache, that evicted an entry of the cache
C19_Witness ==
    /\ Embedded
    /\ ret.args.use_cache
    /\ \E i, j \in DOMAIN ret.args.texts : i < j /\ CacheHit(i) /\ ~CacheHit(j)
    /\ \E i, j \in DOMAIN ret.args.texts : i # j /\ ret.args.texts[i] = ret.args.texts[j]
    /\ \E e \in DOMAIN ret.args.cache : ~Cached(embedder.cache, ret.args.cache[e].key)

-----------------------------------------------------------------------------
(***************************************************************************)
(* The engine: failures, documents without chunks, the context.            *)
(***************************************************************************)
EngineOps ==
    {"RAGEngine.retrieve", "RAGEngine.index_document", "RAGEngine.delete_document",
     "RAGEngine.clear_collection", "RAGEngine.list_documents",
     "RAGEngine.list_collections", "RAGEngine.get_collection_info"}

\* an operation of the engine ended by raising
EngineFailed == ret.op \in EngineOps /\ ret.err # ""

\* the tag names the phase that failed: the lazy initialization, the
\* retrieval, the indexing, or the save of the store
TagNamesPhase ==
    /\ ret.err = "RAGError:initialize" => ~engine.initialized
    /\ ret.err = "RAGError:retrieve" => ret.op = "RAGEngine.retrieve"
    /\ ret.err = "RAGError:index" => ret.op = "RAGEngine.index_document"
    /\ ret.err = "RAGError:save" =>
           ret.op \in {"RAGEngine.index_document", "RAGEngine.delete_document",
                       "RAGEngine.clear_collection"}

Blank(content) == CleanText(content) = <<>>

\* the engine's store and the files are after the step what they were before
\* it, the store of an engine that initialized in the step being what
\* initialize loads
IndexUnchanged ==
    /\ diskIndex' = diskIndex
    /\ diskMeta' = diskMeta
    /\ StoreNow' = IF ~engine.initialized /\ engine'.initialized
                   THEN StoreInitialized(diskIndex, diskMeta)
                   ELSE StoreNow

\* C17: index_document on content that yields no chunk, being empty or
\* whitespace only once normalized, fails with a RAGError tagged index (of an
\* engine that is initialized or initializes in the call), and changes
\* neither the index in memory nor the index on disk.
C17_NoChunksChangesNothing ==
    [][(ret'.op = "RAGEngine.index_document" /\ Blank(ret'.args.content)) =>
           /\ ret'.err # ""
           /\ engine'.initialized => ret'.err = "RAGError:index"
           /\ IndexUnchanged]_vars

\* a document of whitespace was refused by an engine that holds records and
\* has saved them
C17_Witness ==
    /\ ret.op = "RAGEngine.index_document"
    /\ ret.err = "RAGError:index"
    /\ Blank(ret.args.content)
    /\ metadata # <<>>
    /\ diskMeta.state = "ok" /\ diskMeta.metadata = metadata

\* a call of retrieve or of _assemble_context returned a context
ContextAssembled ==
    ret.op \in {"RAGEngine.retrieve", "RAGEngine._assemble_context"} /\ ret.err = ""

\* the length of the texts of the first n chunks, each with its source line
RECURSIVE ChunkTextsLen(_, _)
ChunkTextsLen(chunks, n) ==
    IF n = 0 THEN 0 ELSE ChunkTextsLen(chunks, n - 1) + ChunkTextLen(n, chunks[n])

\* the context holds whole chunks, the first of the list and as many of them
\* as fit, and the list of retrieve is in descending order of score
WholeChunksInOrder ==
    LET chunks == ret.val.chunks
        context == ret.val.context
    IN  /\ context.included \in 0..Len(chunks)
        /\ context.total_length = ChunkTextsLen(chunks, context.included)
        /\ context.included < Len(chunks) =>
               ChunkTextsLen(chunks, context.included + 1) > context.max_chars
        /\ ret.op = "RAGEngine.retrieve" =>
               \A i, j \in DOMAIN chunks : i < j => chunks[i].score >= chunks[j].score

\* C18: the context retrieve assembles consists of whole chunks only, a
\* prefix of the result list in descending order of score, and its total
\* length never exceeds max_tokens * 4 characters.
C18_ContextWithinBudget ==
    ContextAssembled =>
        /\ WholeChunksInOrder
        /\ ret.val.context.length <= ret.val.context.max_chars

\* C18, amended: what stays within max_tokens * 4 characters is the length of
\* the chunk texts taken, source lines included; the separators between them
\* are not counted, so that the context is longer by 7 characters for every
\* chunk after the first.
C18_ChunkTextsWithinBudget ==
    ContextAssembled =>
        /\ WholeChunksInOrder
        /\ ret.val.context.total_length <= ret.val.context.max_chars
        /\ ret.val.context.length =
               ret.val.context.total_length
                   + (IF ret.val.context.included = 0 THEN 0
                      ELSE SeparatorLen * (ret.val.context.included - 1))

\* a context of two chunks that left a third out and is longer than the budget
C18_Witness ==
    /\ ContextAssembled
    /\ ret.val.context.included = 2
    /\ Len(ret.val.chunks) = 3
    /\ ret.val.context.length > ret.val.context.max_chars

-----------------------------------------------------------------------------
(***************************************************************************)
(* The chunker: the fixed and the sentence strategy, the constructor.      *)
(***************************************************************************)
\* a pass of the while loop of _chunk_fixed, on a text that is not empty
FixedPass ==
    /\ chunker.made /\ chunker.pc = "loop"
    /\ chunker'.pc \in {"loop", "done"}
    /\ chunker.chunk_size >= 1 /\ chunker.chunk_overlap >= 0
    /\ chunker.text # <<>>

\* C21: chunking with the fixed strategy terminates for every text that is
\* not empty and every chunk_size >= 1 and chunk_overlap >= 0 the chunker
\* accepts: the start of the window strictly advances on every pass of the
\* loop, and every chunk has at most chunk_size characters.
C21_FixedWindowAdvances ==
    [][FixedPass =>
           /\ chunker'.start > chunker.start
           /\ \A i \in DOMAIN chunker'.chunks :
                  Len(chunker'.chunks[i]) <= chunker.chunk_size]_vars

\* chunk returned with the sentence strategy, for chunk_size > chunk_overlap >= 0
SentenceChunked ==
    /\ ret.op = "chunk"
    /\ chunker.strategy = "sentence"
    /\ chunker.chunk_size > chunker.chunk_overlap /\ chunker.chunk_overlap >= 0

\* C22: with the sentence strategy every chunk returned has at most
\* chunk_size characters, for any text and any chunk_size > chunk_overlap >=
\* 0: a sentence joins the running buffer only if buffer, joining space and
\* sentence still fit.
C22_SentenceChunksWithinSize ==
    SentenceChunked =>
        /\ \A i \in DOMAIN ret.val.raw_chunks :
               Len(ret.val.raw_chunks[i]) <= chunker.chunk_size
        /\ \A i \in DOMAIN ret.val.chunks :
               Len(ret.val.chunks[i].content) <= chunker.chunk_size

\* a DocumentChunker was created, by a caller or by index_document
ChunkerCreated == ret.op \in {"DocumentChunker", "index_document:DocumentChunker"}

\* the value in use for an argument: the one supplied, or the default of the
\* process when none was
SuppliedOrDefault(arg, default) == IF arg # NoArg THEN arg ELSE default

\* C23: a chunk_size or chunk_overlap the caller supplies, to DocumentChunker
\* or to index_document, is the value used, chunk_overlap = 0 included; the
\* default of the process is used only when the caller supplies none.
C23_SuppliedValuesUsed ==
    ChunkerCreated =>
        /\ chunker.chunk_size =
               SuppliedOrDefault(ret.args.chunk_size, ret.args.settings.chunk_size)
        /\ chunker.chunk_overlap =
               SuppliedOrDefault(ret.args.chunk_overlap, ret.args.settings.chunk_overlap)

-----------------------------------------------------------------------------
(***************************************************************************)
(* The embedding cache.                                                    *)
(***************************************************************************)
\* a call of embed with caching on that returned
CachingEmbed ==
    /\ embedder.made
    /\ ret'.op = "embed" /\ ret'.err = ""
    /\ ret'.args.use_cache

\* the entries of the cache, oldest first, that the step removed
Evicted == {e \in DOMAIN embedder.cache :
                ~Cached(embedder'.cache, embedder.cache[e].key)}

-----------------------------------------------------------------------------
(***************************************************************************)
(* The vector index: records and positions, collections, documents.        *)
(***************************************************************************)
\* C25: in every reachable state of the vector index, after any sequence of
\* initialize, add, delete_document, rebuild_index, save and reload, a save
\* or a load that fails part-way included, there are as many records as
\* total_vectors and record i is stored at position i, so that every position
\* the nearest-neighbour search returns has a record.
C25_RecordPerVector ==
    /\ Len(metadata) = total_vectors
    /\ \A i \in DOMAIN metadata : metadata[i].idx = i - 1

\* C28: after any sequence of add and delete_document,
\* get_collection_info(c).document_count is the number of documents
\* list_documents(c) returns, for every existing collection c.
C28_DocumentCountMatchesList ==
    \A c \in DOMAIN collections :
        StoreGetCollectionInfo(StoreNow, c).document_count
            = Cardinality(StoreListDocuments(StoreNow, c))

-----------------------------------------------------------------------------
(***************************************************************************)
(* The engine: collections and documents indexed twice.                    *)
(***************************************************************************)
\* the store an engine call starts from: the one in memory, or the one
\* initialize loads when the call is the first to need it
StoreBefore ==
    IF ~engine.initialized /\ engine'.initialized
    THEN StoreInitialized(diskIndex, diskMeta)
    ELSE StoreNow

\* the records of a collection that are not deleted, by position
LiveRecords(s, collection) ==
    {i \in DOMAIN s.metadata :
        s.metadata[i].collection = collection /\ ~s.metadata[i].deleted}

\* C27: clear_collection(c) changes only collection c: for every other
\* collection c2, list_documents(c2) and the records of c2 that are not
\* deleted are the same before and after the call, also when the same file
\* (same filename and content) was indexed into both c and c2.
C27_ClearLeavesOtherCollections ==
    [][(engine.made /\ ret'.op = "RAGEngine.clear_collection") =>
           \A c2 \in EngineCollections \ {ret'.args.collection} :
               /\ StoreListDocuments(StoreNow', c2) = StoreListDocuments(StoreBefore, c2)
               /\ LiveRecords(StoreNow', c2) = LiveRecords(StoreBefore, c2)]_vars

\* index_document returned for a document already indexed in the collection
IndexedAgain ==
    /\ engine.made
    /\ ret'.op = "RAGEngine.index_document" /\ ret'.err = ""
    /\ GenerateDocId(ret'.args.filename, ret'.args.content)
           \in StoreListDocuments(StoreBefore, ret'.args.collection)

\* C29: index_document is idempotent for a document already indexed:
\* indexing the same filename and content into the same collection a second
\* time leaves the records of the document, and with them total_vectors and
\* the results of a search, as they were after the first call.
C29_IndexDocumentIdempotent ==
    [][IndexedAgain =>
           LET doc_id == GenerateDocId(ret'.args.filename, ret'.args.content)
           IN  /\ doc_id \in DOMAIN documents'
               /\ documents'[doc_id] = StoreBefore.documents[doc_id]
               /\ Len(indexVecs') = Len(StoreBefore.indexVecs)
               /\ metadata' = StoreBefore.metadata]_vars

-----------------------------------------------------------------------------
(***************************************************************************)
(* The comparator: the weights of the ensemble.                            *)
(***************************************************************************)
\* Comparator.evaluate returned in ensemble mode
EnsembleEvaluated ==
    /\ ret.op = "evaluate" /\ ret.err = ""
    /\ ret.args.eval_mode = "ensemble"

\* C30: in ensemble mode the weights passed to a call of Comparator.evaluate
\* are the weights that combine the scores of that call, for every call on
\* the same Comparator and not only the first, so that two calls with the
\* same arguments give the same scores whatever weights earlier calls used.
C30_WeightsOfTheCallUsed ==
    EnsembleEvaluated =>
        ret.val = EnsembleScores(1, <<1, 0>>, ret.args.responses, ret.args.reference,
                                 FALSE, EnsembleWeights(FALSE, ret.args.weights))

-----------------------------------------------------------------------------
(***************************************************************************)
(* The engine: lazy initialization under concurrent callers.               *)
(***************************************************************************)
\* the vector store the engine refers to has been used by an operation
StoreInUse ==
    /\ callers.made
    /\ callers.vector_store # NoObject
    /\ callers.stores[callers.vector_store].used

\* C26: when several engine operations are started concurrently on an engine
\* that is not initialized, one embedder and one vector index are
\* constructed and initialized, once each; no caller runs the
\* initialization again, and none replaces the vector index once a caller
\* has started to use it.
C26_InitializedExactlyOnce ==
    [][callers'.made =>
          /\ Len(callers'.embedders) <= 1
          /\ Len(callers'.stores) <= 1
          /\ \A i \in DOMAIN callers'.embedders : callers'.embedders[i].loads <= 1
          /\ StoreInUse => callers'.vector_store = callers.vector_store]_vars

=============================================================================
